---- MODULE Spec2Model ----
(***************************************************************************)
(* Model of the epoch observation cache of the beacon chain,               *)
(* beacon_node/beacon_chain/src/observed_attesters.rs (ObservedAttesters   *)
(* and EpochBitfield), and of the network behaviour of the beacon node,    *)
(* beacon_node/eth2-libp2p/src/behaviour.rs (Behaviour).                   *)
(*                                                                         *)
(* Indices are 0-based as in the Rust source: element i of a Vec or a      *)
(* BitVec is element i + 1 of the TLA+ sequence that models it.            *)
(* Epochs and validator indices stay far below 2^64 within the bounds, so  *)
(* the only place where the integer width shows is the saturating          *)
(* subtraction of prune, which is modelled as such.                        *)
(***************************************************************************)
EXTENDS Integers, Sequences, FiniteSets

VARIABLES
    lowest_permissible_epoch,   \* ObservedAttesters.lowest_permissible_epoch
    bitfields,                  \* ObservedAttesters.bitfields: Vec<EpochBitfield>
    last,                       \* the last call made on the cache, and what it returned
    tick,                       \* alternates on every call: a call is always a step
    watch,                      \* history: one (epoch, validator index) pair, fixed at Init
    watched,                    \* history: an observe of the pair `watch` has returned Ok
    max_lpe,                    \* history: the highest value lowest_permissible_epoch has had
    seq_epoch,                  \* test driver: the epoch the in-order test loop is at
    seq_observed,               \* test driver: the loop has observed at seq_epoch
    seq_seen,                   \* test driver: the epochs the loop has observed at
    threads,                    \* per thread: the call it is in and where it is in it
    locks,                      \* the two RwLocks of the cache: writer and readers
    events,                     \* Behaviour.events: Vec<BehaviourEvent>
    seen_gossip_messages,       \* Behaviour.seen_gossip_messages, most recently used first
    gossipsub,                  \* Behaviour.gossipsub: the topics the engine is subscribed to
    gossipsub_subscriptions,    \* network_globals.gossipsub_subscriptions
    enr_fork_id,                \* Behaviour.enr_fork_id (its fork_digest)
    local_enr,                  \* Behaviour.discovery: the local ENR (eth2 field and attnets)
    meta_data,                  \* Behaviour.meta_data
    pm_events,                  \* Behaviour.peer_manager: the events its stream has ready
    rpc_sent,                   \* what the last operation passed to eth2_rpc.send_rpc
    pm_calls,                   \* what the last operation called on peer_manager
    called,                     \* the last operation on the Behaviour, and what it returned
    identify_info,              \* the IdentifyInfo that the identify engine has of a peer
    enr_updates,                \* history: the number of update_enr_subnet calls
    delivered,                  \* history: the message ids delivered, last delivered first
    inserted,                   \* history: the ids in the dedup cache, last inserted first
    enqueued,                   \* history: every event pushed to `events`, in order
    returned,                   \* history: every event poll has taken from `events`, in order
    validator_dirs,             \* deposit tool: the files of each validator directory
    eth1_txs,                   \* deposit tool: the transactions the Eth1 node was sent
    deposit_run                 \* deposit tool: the run of cli_run and where it is

\* The variables of the Behaviour.
behaviour_vars == <<events, seen_gossip_messages, gossipsub, gossipsub_subscriptions,
                    enr_fork_id, local_enr, meta_data, enr_updates, pm_events, rpc_sent,
                    pm_calls, called, identify_info, delivered, inserted, enqueued,
                    returned>>

\* The variables of the deposit tool.
deposit_vars == <<validator_dirs, eth1_txs, deposit_run>>

\* The variables that the sequential specifications of the cache leave alone.
ext_vars == <<seq_seen, threads, locks, behaviour_vars, deposit_vars>>

vars == <<lowest_permissible_epoch, bitfields, last, tick, watch, watched,
          max_lpe, seq_epoch, seq_observed, ext_vars>>

(***************************************************************************)
(* Bounds of the model.                                                    *)
(***************************************************************************)
\* Calls are made with epochs 0..MaxEpoch.
MaxEpoch == 2

\* E::ValidatorRegistryLimit::to_usize(), scaled down (2^40 on mainnet).
ValidatorRegistryLimit == 1

\* The threads that share one cache.
NumThreads == 2

Epochs == 0..MaxEpoch

\* SpecWindow and SpecNoPrune make calls with epochs 0..MaxWindowEpoch.
MaxWindowEpoch == 3

WindowEpochs == 0..MaxWindowEpoch

Threads == 1..NumThreads

\* The indices a caller may pass: every index within the limit, and one beyond.
ValidatorIndices == 0..(ValidatorRegistryLimit + 1)

(***************************************************************************)
(* EpochBitfield                                                           *)
(***************************************************************************)

\* EpochBitfield::new. BitVec::with_capacity reserves memory only: the new
\* bitfield has length 0 whatever initial_capacity is.
EpochBitfield_new(epoch) == [epoch |-> epoch, bitfield |-> <<>>]

\* BitVec::resize(new_len, false)
BitVec_resize(bits, new_len) ==
    [i \in 1..new_len |-> IF i <= Len(bits) THEN bits[i] ELSE FALSE]

\* Mutant: the bitfield is grown with resize(.., true), so the positions below
\* validator_index come up set.
EpochBitfield_observe_resize_true(b, validator_index) ==
    IF validator_index > ValidatorRegistryLimit
    THEN [b |-> b, result |-> "ValidatorIndexTooHigh"]
    ELSE IF validator_index < Len(b.bitfield)
    THEN IF b.bitfield[validator_index + 1]
         THEN [b |-> b, result |-> "Ok(true)"]
         ELSE [b |-> [b EXCEPT !.bitfield[validator_index + 1] = TRUE],
               result |-> "Ok(false)"]
    ELSE [b |-> [b EXCEPT !.bitfield =
                    [i \in 1..(validator_index + 1) |->
                        IF i <= Len(b.bitfield) THEN b.bitfield[i] ELSE TRUE]],
          result |-> "Ok(false)"]

\* EpochBitfield::observe_attesting_validator: the bitfield after the call and
\* the value returned.
EpochBitfield_observe_attesting_validator(b, validator_index) ==
    IF validator_index > ValidatorRegistryLimit
    THEN [b |-> b, result |-> "ValidatorIndexTooHigh"]
    ELSE IF validator_index < Len(b.bitfield)
    THEN IF b.bitfield[validator_index + 1]
         THEN [b |-> b, result |-> "Ok(true)"]
         ELSE [b |-> [b EXCEPT !.bitfield[validator_index + 1] = TRUE],
               result |-> "Ok(false)"]
    ELSE [b |-> [b EXCEPT !.bitfield =
                    [BitVec_resize(@, validator_index + 1)
                        EXCEPT ![validator_index + 1] = TRUE]],
          result |-> "Ok(false)"]

\* EpochBitfield::has_attested
EpochBitfield_has_attested(b, validator_index) ==
    IF validator_index > ValidatorRegistryLimit
    THEN "ValidatorIndexTooHigh"
    ELSE IF validator_index < Len(b.bitfield) /\ b.bitfield[validator_index + 1]
    THEN "Ok(true)"
    ELSE "Ok(false)"

(***************************************************************************)
(* ObservedAttesters. A cache value is the record                          *)
(* [lowest_permissible_epoch, bitfields] of its two fields.                *)
(***************************************************************************)

max_capacity == 2

\* u64::saturating_sub, which Epoch's subtraction uses.
saturating_sub(a, b) == IF a >= b THEN a - b ELSE 0

\* Vec::retain(|bitfield| bitfield.epoch >= lowest): the kept elements, in order.
RECURSIVE retain(_, _)
retain(bfs, lowest) ==
    IF bfs = <<>> THEN <<>>
    ELSE IF Head(bfs).epoch >= lowest
    THEN <<Head(bfs)>> \o retain(Tail(bfs), lowest)
    ELSE retain(Tail(bfs), lowest)

\* Mutant: retain keeps bitfield.epoch > lowest_permissible_epoch only.
prune_retain_strict(c, current_epoch) ==
    LET lowest == saturating_sub(current_epoch, saturating_sub(max_capacity, 1))
    IN  [lowest_permissible_epoch |-> lowest,
         bitfields |-> retain(c.bitfields, lowest + 1)]

\* Mutant: the floor is advanced and no bitfield is discarded.
prune_no_retain(c, current_epoch) ==
    LET lowest == saturating_sub(current_epoch, saturating_sub(max_capacity, 1))
    IN  [lowest_permissible_epoch |-> lowest,
         bitfields |-> c.bitfields]

\* ObservedAttesters::prune
prune(c, current_epoch) ==
    LET lowest == saturating_sub(current_epoch, saturating_sub(max_capacity, 1))
    IN  [lowest_permissible_epoch |-> lowest,
         bitfields |-> retain(c.bitfields, lowest)]

\* bitfields.iter().position(|b| b.epoch == epoch): the first such index, or -1.
position(bfs, epoch) ==
    LET hits == {i \in 0..(Len(bfs) - 1) : bfs[i + 1].epoch = epoch}
    IN  IF hits = {} THEN -1
        ELSE CHOOSE i \in hits : \A j \in hits : i <= j

\* Mutant: the index of the bitfield with the largest epoch (max_by_key).
max_by_key_epoch(bfs) ==
    CHOOSE i \in 0..(Len(bfs) - 1) :
        \A j \in 0..(Len(bfs) - 1) : bfs[i + 1].epoch >= bfs[j + 1].epoch

\* bitfields.iter().enumerate().min_by_key(|(_i, b)| b.epoch): the first index
\* among those of the smallest epoch.
min_by_key_epoch(bfs) ==
    CHOOSE i \in 0..(Len(bfs) - 1) :
        \A j \in 0..(Len(bfs) - 1) :
            \/ bfs[i + 1].epoch < bfs[j + 1].epoch
            \/ bfs[i + 1].epoch = bfs[j + 1].epoch /\ i <= j

\* Mutant: the capacity test is bitfields.len() <= max_capacity, so a third
\* bitfield is pushed where the smallest epoch should be replaced.
get_bitfield_index_push_full(c, epoch) ==
    IF epoch < c.lowest_permissible_epoch
    THEN [cache |-> c, result |-> "EpochTooLow", index |-> 0]
    ELSE
    LET pruned == IF c.lowest_permissible_epoch + max_capacity < epoch + 1
                  THEN prune(c, epoch)
                  ELSE c
        bfs == pruned.bitfields
    IN  IF position(bfs, epoch) # -1
        THEN [cache |-> pruned, result |-> "Ok", index |-> position(bfs, epoch)]
        ELSE IF Len(bfs) <= max_capacity \/ bfs = <<>>
        THEN [cache |-> [pruned EXCEPT !.bitfields = Append(bfs, EpochBitfield_new(epoch))],
              result |-> "Ok", index |-> Len(bfs)]
        ELSE [cache |-> [pruned EXCEPT
                            !.bitfields[min_by_key_epoch(bfs) + 1] = EpochBitfield_new(epoch)],
              result |-> "Ok", index |-> min_by_key_epoch(bfs)]

\* Mutant: the staleness test is epoch <= lowest_permissible_epoch.
get_bitfield_index_le(c, epoch) ==
    IF epoch <= c.lowest_permissible_epoch
    THEN [cache |-> c, result |-> "EpochTooLow", index |-> 0]
    ELSE
    LET pruned == IF c.lowest_permissible_epoch + max_capacity < epoch + 1
                  THEN prune(c, epoch)
                  ELSE c
        bfs == pruned.bitfields
    IN  IF position(bfs, epoch) # -1
        THEN [cache |-> pruned, result |-> "Ok", index |-> position(bfs, epoch)]
        ELSE IF Len(bfs) < max_capacity \/ bfs = <<>>
        THEN [cache |-> [pruned EXCEPT !.bitfields = Append(bfs, EpochBitfield_new(epoch))],
              result |-> "Ok", index |-> Len(bfs)]
        ELSE [cache |-> [pruned EXCEPT
                            !.bitfields[min_by_key_epoch(bfs) + 1] = EpochBitfield_new(epoch)],
              result |-> "Ok", index |-> min_by_key_epoch(bfs)]

\* Mutant: the pool is not pruned when the epoch is past the window.
get_bitfield_index_no_prune(c, epoch) ==
    IF epoch < c.lowest_permissible_epoch
    THEN [cache |-> c, result |-> "EpochTooLow", index |-> 0]
    ELSE
    LET bfs == c.bitfields
    IN  IF position(bfs, epoch) # -1
        THEN [cache |-> c, result |-> "Ok", index |-> position(bfs, epoch)]
        ELSE IF Len(bfs) < max_capacity \/ bfs = <<>>
        THEN [cache |-> [c EXCEPT !.bitfields = Append(bfs, EpochBitfield_new(epoch))],
              result |-> "Ok", index |-> Len(bfs)]
        ELSE [cache |-> [c EXCEPT
                            !.bitfields[min_by_key_epoch(bfs) + 1] = EpochBitfield_new(epoch)],
              result |-> "Ok", index |-> min_by_key_epoch(bfs)]

\* ObservedAttesters::get_bitfield_index: the cache after the call, and either
\* the error or the index returned.
get_bitfield_index(c, epoch) ==
    IF epoch < c.lowest_permissible_epoch
    THEN [cache |-> c, result |-> "EpochTooLow", index |-> 0]
    ELSE
    LET pruned == IF c.lowest_permissible_epoch + max_capacity < epoch + 1
                  THEN prune(c, epoch)
                  ELSE c
        bfs == pruned.bitfields
    IN  IF position(bfs, epoch) # -1
        THEN [cache |-> pruned, result |-> "Ok", index |-> position(bfs, epoch)]
        ELSE IF Len(bfs) < max_capacity \/ bfs = <<>>
        THEN [cache |-> [pruned EXCEPT !.bitfields = Append(bfs, EpochBitfield_new(epoch))],
              result |-> "Ok", index |-> Len(bfs)]
        ELSE [cache |-> [pruned EXCEPT
                            !.bitfields[min_by_key_epoch(bfs) + 1] = EpochBitfield_new(epoch)],
              result |-> "Ok", index |-> min_by_key_epoch(bfs)]

\* ObservedAttesters::observe_attesting_validator: the cache after the call and
\* the value returned.
observe_attesting_validator(c, epoch, validator_index) ==
    LET g == get_bitfield_index(c, epoch)
    IN  IF g.result # "Ok"
        THEN [cache |-> g.cache, result |-> g.result]
        ELSE IF g.index >= Len(g.cache.bitfields)
        THEN [cache |-> g.cache, result |-> "InvalidBitfieldIndex"]
        ELSE LET o == EpochBitfield_observe_attesting_validator(
                          g.cache.bitfields[g.index + 1], validator_index)
             IN  [cache |-> [g.cache EXCEPT !.bitfields[g.index + 1] = o.b],
                  result |-> o.result]

\* ObservedAttesters::has_attested: the cache after the call and the value returned.
has_attested(c, epoch, validator_index) ==
    LET g == get_bitfield_index(c, epoch)
    IN  IF g.result # "Ok"
        THEN [cache |-> g.cache, result |-> g.result]
        ELSE IF g.index >= Len(g.cache.bitfields)
        THEN [cache |-> g.cache, result |-> "InvalidBitfieldIndex"]
        ELSE [cache |-> g.cache,
              result |-> EpochBitfield_has_attested(
                             g.cache.bitfields[g.index + 1], validator_index)]

(***************************************************************************)
(* Behaviour (behaviour.rs): the values it handles.                        *)
(*                                                                         *)
(* The protocol engines are libraries: the model keeps of each the state   *)
(* the Behaviour reads or changes through the calls it makes. The peer     *)
(* manager's stream and the events the engines deliver are inputs.         *)
(***************************************************************************)

\* LruCache::new(100_000) of Behaviour::new, scaled down.
LruCapacity == 2

\* Gossip message ids are 1..MaxMessageId.
MaxMessageId == 3

\* `events` has had at most MaxEvents events pushed to it.
MaxEvents == 2

\* The peer manager's stream has at most MaxDirectives events ready.
MaxDirectives == 2

\* meta_data.seq_number is followed up to MaxSeqNumber.
MaxSeqNumber == 3

\* Fork digests are 0..MaxForkDigest.
MaxForkDigest == 1

\* A peer advertises up to MaxListenAddrs addresses.
MaxListenAddrs == 11

MAX_IDENTIFY_ADDRESSES == 10

Multiaddrs == {"addr_a", "addr_b"}

\* The deposit tool is run up to MaxRuns times.
MaxRuns == 2

\* The validator directories of the data dir, in the order they are opened.
AllValidators == <<"validator_a", "validator_b">>

\* The values of --validator: all, the name of a directory, a name of none.
ValidatorArgs == {"all", "validator_a", "validator_b", "validator_x"}

MessageIds == 1..MaxMessageId

ForkDigests == 0..MaxForkDigest

PeerIds == {"peer_a", "peer_b"}

RequestIds == {1, 2}

SubnetIds == {0, 1}

\* GossipKind: BeaconBlock, and CommitteeIndex(subnet_id) of a SubnetId.
GossipKind_BeaconBlock == [tag |-> "BeaconBlock", subnet_id |-> 0]

GossipKind_CommitteeIndex(subnet_id) == [tag |-> "CommitteeIndex", subnet_id |-> subnet_id]

GossipKinds ==
    {GossipKind_BeaconBlock} \cup {GossipKind_CommitteeIndex(n) : n \in SubnetIds}

\* GossipTopic::new(kind, GossipEncoding::default(), fork_digest)
GossipTopic_new(kind, encoding, fork_digest) ==
    [encoding |-> encoding, fork_digest |-> fork_digest, kind |-> kind]

GossipEncoding_default == "ssz"

\* topic.into(): the libp2p Topic of a GossipTopic, which is made of its
\* string "/eth2/<fork digest>/<kind>/<encoding>".
GossipTopic_into(topic) ==
    <<"eth2", topic.fork_digest, topic.kind, topic.encoding>>

\* The events that inject_event(RPCMessage) tells apart, and some of the rest.
RPCEventKinds ==
    {"Request(Ping)", "Request(MetaData)", "Request(Status)", "Request(Goodbye)",
     "Response(Success(Pong))", "Response(Success(MetaData))",
     "Response(Success(Status))", "Response(InvalidRequest)", "Error"}

\* RPCEvent, with the peer of the RPCMessage; Ping, Pong and MetaData carry a
\* seq_number, MetaData attnets as well.
RPCEvent(peer_id, id, kind, seq_number, attnets) ==
    [peer_id |-> peer_id, id |-> id, kind |-> kind, seq_number |-> seq_number,
     attnets |-> attnets]

\* BehaviourEvent: RPC(peer_id, event), PubsubMessage {id, source, ..},
\* PeerSubscribed(peer_id, topic), StatusPeer(peer_id). `detail` is the kind
\* of the RPC event.
BehaviourEvent(type, peer_id, id, detail) ==
    [type |-> type, peer_id |-> peer_id, id |-> id, detail |-> detail]

\* Poll::Pending, as a value of the same shape.
Poll_Pending == [type |-> "Pending", peer_id |-> "", id |-> 0, detail |-> ""]

\* IdentifyInfo: the addresses the peer listens on, and its agent version.
IdentifyInfo(listen_addrs) ==
    [listen_addrs |-> listen_addrs, agent_version |-> "agent"]

\* IdentifyEvent: Received {peer_id, info, observed_addr}, Sent, Error.
IdentifyEventKinds == {"Received", "Sent", "Error"}

\* PeerManagerEvent: Status, Ping, MetaData, each of a peer.
PeerManagerEventKinds == {"Status", "Ping", "MetaData"}

Range(seq) == {seq[i] : i \in 1..Len(seq)}

\* A sequence without the occurrences of x.
Without(seq, x) == SelectSeq(seq, LAMBDA y : y # x)

(***************************************************************************)
(* Behaviour: the methods, as functions of the fields they use.            *)
(***************************************************************************)

\* Mutant: a key already in the cache keeps its place in the eviction order.
LruCache_put_in_place(cache, k) ==
    IF k \in Range(cache)
    THEN [cache |-> cache, old |-> "Some"]
    ELSE [cache |-> <<k>> \o (IF Len(cache) >= LruCapacity
                              THEN SubSeq(cache, 1, LruCapacity - 1)
                              ELSE cache),
          old |-> "None"]

\* LruCache::put(k, ()): a key already in the cache becomes the most recently
\* used and the old value is returned; a new key is put in front, and when
\* the cache is full the least recently used key is dropped.
LruCache_put(cache, k) ==
    IF k \in Range(cache)
    THEN [cache |-> <<k>> \o Without(cache, k), old |-> "Some"]
    ELSE [cache |-> <<k>> \o (IF Len(cache) >= LruCapacity
                              THEN SubSeq(cache, 1, LruCapacity - 1)
                              ELSE cache),
          old |-> "None"]

\* inject_event(GossipsubEvent::Message(propagation_source, id, gs_msg)):
\* the cache after it and the events pushed; `decodes` is whether
\* PubsubMessage::decode(&gs_msg.topics, &gs_msg.data) is Ok.
inject_gossipsub_message(cache, propagation_source, id, decodes) ==
    LET put == LruCache_put(cache, id)
    IN  [seen_gossip_messages |-> put.cache,
         is_none |-> put.old = "None",
         pushed |-> IF put.old = "None" /\ decodes
                    THEN <<BehaviourEvent("PubsubMessage", propagation_source, id, "")>>
                    ELSE <<>>]

\* Mutant: the Ping carries the seq_number that the metadata started with.
send_ping_initial_seq(seq_number, id, peer_id, is_request) ==
    RPCEvent(peer_id, id,
             IF is_request THEN "Request(Ping)" ELSE "Response(Success(Pong))",
             1, {})

\* send_ping(id, peer_id, is_request): the event passed to send_rpc.
send_ping(seq_number, id, peer_id, is_request) ==
    RPCEvent(peer_id, id,
             IF is_request THEN "Request(Ping)" ELSE "Response(Success(Pong))",
             seq_number, {})

\* send_meta_data_request(peer_id)
send_meta_data_request(peer_id) ==
    RPCEvent(peer_id, 0, "Request(MetaData)", 0, {})

\* send_meta_data_response(id, peer_id)
send_meta_data_response(md, id, peer_id) ==
    RPCEvent(peer_id, id, "Response(Success(MetaData))", md.seq_number, md.attnets)

\* Mutant: a Status request is handled like a Ping request; it is not pushed.
inject_rpc_status_inline(md, peer_id, id, kind) ==
    IF kind \in {"Request(Ping)", "Request(Status)"}
    THEN [pm_calls |-> <<<<"ping_request", peer_id>>>>,
          rpc_sent |-> <<send_ping(md.seq_number, id, peer_id, FALSE)>>,
          pushed |-> <<>>]
    ELSE [pm_calls |-> <<>>, rpc_sent |-> <<>>,
          pushed |-> <<BehaviourEvent("RPC", peer_id, id, kind)>>]

\* Mutant: an RPC error is reported to the peer manager and goes no further.
inject_rpc_error_dropped(md, peer_id, id, kind) ==
    IF kind = "Request(Ping)"
    THEN [pm_calls |-> <<<<"ping_request", peer_id>>>>,
          rpc_sent |-> <<send_ping(md.seq_number, id, peer_id, FALSE)>>,
          pushed |-> <<>>]
    ELSE IF kind = "Request(MetaData)"
    THEN [pm_calls |-> <<>>,
          rpc_sent |-> <<send_meta_data_response(md, id, peer_id)>>,
          pushed |-> <<>>]
    ELSE IF kind = "Response(Success(Pong))"
    THEN [pm_calls |-> <<<<"pong_response", peer_id>>>>, rpc_sent |-> <<>>,
          pushed |-> <<>>]
    ELSE IF kind = "Response(Success(MetaData))"
    THEN [pm_calls |-> <<<<"meta_data_response", peer_id>>>>, rpc_sent |-> <<>>,
          pushed |-> <<>>]
    ELSE IF kind \in {"Request(Status)", "Response(Success(Status))"}
    THEN [pm_calls |-> <<<<"peer_statusd", peer_id>>>>, rpc_sent |-> <<>>,
          pushed |-> <<BehaviourEvent("RPC", peer_id, id, kind)>>]
    ELSE IF kind = "Error"
    THEN [pm_calls |-> <<<<"handle_rpc_error", peer_id>>>>, rpc_sent |-> <<>>,
          pushed |-> <<>>]
    ELSE [pm_calls |-> <<>>, rpc_sent |-> <<>>,
          pushed |-> <<BehaviourEvent("RPC", peer_id, id, kind)>>]

\* inject_event(RPCMessage {peer_id, event}): the calls on the peer manager,
\* the events passed to send_rpc and the events pushed.
inject_rpc(md, peer_id, id, kind) ==
    IF kind = "Request(Ping)"
    THEN [pm_calls |-> <<<<"ping_request", peer_id>>>>,
          rpc_sent |-> <<send_ping(md.seq_number, id, peer_id, FALSE)>>,
          pushed |-> <<>>]
    ELSE IF kind = "Request(MetaData)"
    THEN [pm_calls |-> <<>>,
          rpc_sent |-> <<send_meta_data_response(md, id, peer_id)>>,
          pushed |-> <<>>]
    ELSE IF kind = "Response(Success(Pong))"
    THEN [pm_calls |-> <<<<"pong_response", peer_id>>>>, rpc_sent |-> <<>>,
          pushed |-> <<>>]
    ELSE IF kind = "Response(Success(MetaData))"
    THEN [pm_calls |-> <<<<"meta_data_response", peer_id>>>>, rpc_sent |-> <<>>,
          pushed |-> <<>>]
    ELSE IF kind \in {"Request(Status)", "Response(Success(Status))"}
    THEN [pm_calls |-> <<<<"peer_statusd", peer_id>>>>, rpc_sent |-> <<>>,
          pushed |-> <<BehaviourEvent("RPC", peer_id, id, kind)>>]
    ELSE IF kind = "Error"
    THEN [pm_calls |-> <<<<"handle_rpc_error", peer_id>>>>, rpc_sent |-> <<>>,
          pushed |-> <<BehaviourEvent("RPC", peer_id, id, kind)>>]
    ELSE [pm_calls |-> <<>>, rpc_sent |-> <<>>,
          pushed |-> <<BehaviourEvent("RPC", peer_id, id, kind)>>]

\* Vec::truncate(len): the first len elements are kept, and nothing changes
\* when the Vec is no longer than len.
Vec_truncate(v, len) == IF len > Len(v) THEN v ELSE SubSeq(v, 1, len)

\* Mutant: the address list is cut to its last MAX_IDENTIFY_ADDRESSES entries.
inject_identify_keep_last(kind, peer_id, info) ==
    IF kind = "Received"
    THEN LET n == Len(info.listen_addrs)
             truncated ==
                 IF n > MAX_IDENTIFY_ADDRESSES
                 THEN [info EXCEPT !.listen_addrs =
                           SubSeq(@, n - MAX_IDENTIFY_ADDRESSES + 1, n)]
                 ELSE info
         IN  [pm_calls |-> <<<<"identify", peer_id, truncated>>>>]
    ELSE [pm_calls |-> <<>>]

\* inject_event(IdentifyEvent): the calls on the peer manager.
inject_identify(kind, peer_id, info) ==
    IF kind = "Received"
    THEN LET truncated ==
                 IF Len(info.listen_addrs) > MAX_IDENTIFY_ADDRESSES
                 THEN [info EXCEPT !.listen_addrs =
                           Vec_truncate(@, MAX_IDENTIFY_ADDRESSES)]
                 ELSE info
         IN  [pm_calls |-> <<<<"identify", peer_id, truncated>>>>]
    ELSE [pm_calls |-> <<>>]

\* Mutant: a Status event is passed over and the loop goes on to the end of
\* the stream.
RECURSIVE poll_peer_manager_skip_status(_, _, _)
poll_peer_manager_skip_status(pm, seq_number, sent) ==
    IF pm = <<>>
    THEN [pm_events |-> <<>>, rpc_sent |-> sent, status |-> <<>>]
    ELSE IF Head(pm).kind = "Ping"
    THEN poll_peer_manager_skip_status(Tail(pm), seq_number,
             Append(sent, send_ping(seq_number, 0, Head(pm).peer_id, TRUE)))
    ELSE IF Head(pm).kind = "MetaData"
    THEN poll_peer_manager_skip_status(Tail(pm), seq_number,
             Append(sent, send_meta_data_request(Head(pm).peer_id)))
    ELSE poll_peer_manager_skip_status(Tail(pm), seq_number, sent)

\* The loop of poll over peer_manager.poll_next_unpin: what is left ready in
\* the stream, the events passed to send_rpc, and the peer of the Status
\* event on which poll returned, if it did.
RECURSIVE poll_peer_manager(_, _, _)
poll_peer_manager(pm, seq_number, sent) ==
    IF pm = <<>>
    THEN [pm_events |-> <<>>, rpc_sent |-> sent, status |-> <<>>]
    ELSE IF Head(pm).kind = "Status"
    THEN [pm_events |-> Tail(pm), rpc_sent |-> sent, status |-> <<Head(pm).peer_id>>]
    ELSE IF Head(pm).kind = "Ping"
    THEN poll_peer_manager(Tail(pm), seq_number,
             Append(sent, send_ping(seq_number, 0, Head(pm).peer_id, TRUE)))
    ELSE IF Head(pm).kind = "MetaData"
    THEN poll_peer_manager(Tail(pm), seq_number,
             Append(sent, send_meta_data_request(Head(pm).peer_id)))
    ELSE poll_peer_manager(Tail(pm), seq_number, sent)

\* Mutant: poll takes the last event of `events` (Vec::pop).
poll_pop(pm, evs, seq_number) ==
    LET p == poll_peer_manager(pm, seq_number, <<>>)
    IN  IF p.status # <<>>
        THEN [pm_events |-> p.pm_events, rpc_sent |-> p.rpc_sent, events |-> evs,
              taken |-> <<>>,
              ret |-> BehaviourEvent("StatusPeer", p.status[1], 0, "")]
        ELSE IF evs # <<>>
        THEN [pm_events |-> p.pm_events, rpc_sent |-> p.rpc_sent,
              events |-> SubSeq(evs, 1, Len(evs) - 1),
              taken |-> <<evs[Len(evs)]>>, ret |-> evs[Len(evs)]]
        ELSE [pm_events |-> p.pm_events, rpc_sent |-> p.rpc_sent, events |-> evs,
              taken |-> <<>>, ret |-> Poll_Pending]

\* Mutant: a poll that has sent a request for a Ping or MetaData event of the
\* peer manager returns Pending and leaves `events` for the next poll.
poll_requests_first(pm, evs, seq_number) ==
    LET p == poll_peer_manager(pm, seq_number, <<>>)
    IN  IF p.status # <<>>
        THEN [pm_events |-> p.pm_events, rpc_sent |-> p.rpc_sent, events |-> evs,
              taken |-> <<>>,
              ret |-> BehaviourEvent("StatusPeer", p.status[1], 0, "")]
        ELSE IF evs # <<>> /\ p.rpc_sent = <<>>
        THEN [pm_events |-> p.pm_events, rpc_sent |-> p.rpc_sent,
              events |-> Tail(evs), taken |-> <<Head(evs)>>, ret |-> Head(evs)]
        ELSE [pm_events |-> p.pm_events, rpc_sent |-> p.rpc_sent, events |-> evs,
              taken |-> <<>>, ret |-> Poll_Pending]

\* Behaviour::poll: the peer manager's stream, the events passed to send_rpc,
\* `events`, the event taken from it if one was, and the value returned.
poll(pm, evs, seq_number) ==
    LET p == poll_peer_manager(pm, seq_number, <<>>)
    IN  IF p.status # <<>>
        THEN [pm_events |-> p.pm_events, rpc_sent |-> p.rpc_sent, events |-> evs,
              taken |-> <<>>,
              ret |-> BehaviourEvent("StatusPeer", p.status[1], 0, "")]
        ELSE IF evs # <<>>
        THEN [pm_events |-> p.pm_events, rpc_sent |-> p.rpc_sent,
              events |-> Tail(evs), taken |-> <<Head(evs)>>, ret |-> Head(evs)]
        ELSE [pm_events |-> p.pm_events, rpc_sent |-> p.rpc_sent, events |-> evs,
              taken |-> <<>>, ret |-> Poll_Pending]

\* Gossipsub::subscribe(topic): true when the engine was not subscribed.
Gossipsub_subscribe(gs, topic) ==
    [gossipsub |-> gs \cup {topic}, ret |-> topic \notin gs]

\* Gossipsub::unsubscribe(topic): true when the engine was subscribed.
Gossipsub_unsubscribe(gs, topic) ==
    [gossipsub |-> gs \ {topic}, ret |-> topic \in gs]

\* Mutant: subscribe returns whether the topic was new to
\* network_globals.gossipsub_subscriptions after the insert, which it never is.
subscribe_ret_globals(gs, subs, topic) ==
    [gossipsub |-> Gossipsub_subscribe(gs, GossipTopic_into(topic)).gossipsub,
     gossipsub_subscriptions |-> subs \cup {topic},
     ret |-> FALSE]

\* Behaviour::subscribe(topic)
subscribe(gs, subs, topic) ==
    LET s == Gossipsub_subscribe(gs, GossipTopic_into(topic))
    IN  [gossipsub |-> s.gossipsub,
         gossipsub_subscriptions |-> subs \cup {topic},
         ret |-> s.ret]

\* Mutant: unsubscribe leaves network_globals.gossipsub_subscriptions alone.
unsubscribe_engine_only(gs, subs, topic) ==
    LET u == Gossipsub_unsubscribe(gs, GossipTopic_into(topic))
    IN  [gossipsub |-> u.gossipsub,
         gossipsub_subscriptions |-> subs,
         ret |-> u.ret]

\* Behaviour::unsubscribe(topic)
unsubscribe(gs, subs, topic) ==
    LET u == Gossipsub_unsubscribe(gs, GossipTopic_into(topic))
    IN  [gossipsub |-> u.gossipsub,
         gossipsub_subscriptions |-> subs \ {topic},
         ret |-> u.ret]

\* subscribe_kind(kind) and, with kind = subnet_id.into(), subscribe_to_subnet
subscribe_kind(gs, subs, fork_digest, kind) ==
    subscribe(gs, subs, GossipTopic_new(kind, GossipEncoding_default, fork_digest))

\* unsubscribe_kind(kind) and, with kind = subnet_id.into(),
\* unsubscribe_from_subnet
unsubscribe_kind(gs, subs, fork_digest, kind) ==
    unsubscribe(gs, subs, GossipTopic_new(kind, GossipEncoding_default, fork_digest))

\* update_fork_version, first loop: unsubscribe from every topic of the
\* snapshot. The snapshot is collected from a HashSet, in no particular
\* order, and the outcome of the loop does not depend on the order.
RECURSIVE unsubscribe_each(_, _, _)
unsubscribe_each(gs, subs, topics) ==
    IF topics = {} THEN [gossipsub |-> gs, gossipsub_subscriptions |-> subs]
    ELSE LET topic == CHOOSE t \in topics : TRUE
             u == unsubscribe(gs, subs, topic)
         IN  unsubscribe_each(u.gossipsub, u.gossipsub_subscriptions,
                              topics \ {topic})

\* update_fork_version, second loop: each topic of the snapshot gets the new
\* fork digest and is subscribed to.
RECURSIVE subscribe_each(_, _, _, _)
subscribe_each(gs, subs, topics, fork_digest) ==
    IF topics = {} THEN [gossipsub |-> gs, gossipsub_subscriptions |-> subs]
    ELSE LET topic == CHOOSE t \in topics : TRUE
             s == subscribe(gs, subs, [topic EXCEPT !.fork_digest = fork_digest])
         IN  subscribe_each(s.gossipsub, s.gossipsub_subscriptions,
                            topics \ {topic}, fork_digest)

\* Mutant: the topics are subscribed to again with the digest they had.
update_fork_version_same_digest(gs, subs, new_fork_digest) ==
    [gossipsub |-> gs, gossipsub_subscriptions |-> subs]

\* update_fork_version(enr_fork_id): the engine's topics and the shared set
\* after the two loops.
update_fork_version(gs, subs, new_fork_digest) ==
    LET u == unsubscribe_each(gs, subs, subs)
    IN  subscribe_each(u.gossipsub, u.gossipsub_subscriptions, subs,
                       new_fork_digest)

\* discovery.update_eth2_enr(enr_fork_id): the local ENR carries the fork id.
Discovery_update_eth2_enr(enr, fork_digest) ==
    [enr EXCEPT !.eth2 = fork_digest]

\* discovery.update_enr_bitfield(subnet_id, value), when it is Ok: the bit of
\* the subnet in the local ENR's attnets is set to `value`.
Discovery_update_enr_bitfield(enr, subnet_id, value) ==
    [enr EXCEPT !.attnets = IF value THEN @ \cup {subnet_id} ELSE @ \ {subnet_id}]

\* update_metadata
update_metadata(md, enr) ==
    [seq_number |-> md.seq_number + 1, attnets |-> enr.attnets]

\* Mutant: update_enr_subnet returns where the ENR could not be updated.
update_enr_subnet_return_on_err(md, enr, subnet_id, value, ok) ==
    IF ok
    THEN [local_enr |-> Discovery_update_enr_bitfield(enr, subnet_id, value),
          meta_data |-> update_metadata(md,
                            Discovery_update_enr_bitfield(enr, subnet_id, value))]
    ELSE [local_enr |-> enr, meta_data |-> md]

\* update_enr_subnet(subnet_id, value); `ok` is whether
\* discovery.update_enr_bitfield returned Ok.
update_enr_subnet(md, enr, subnet_id, value, ok) ==
    LET updated == IF ok THEN Discovery_update_enr_bitfield(enr, subnet_id, value)
                   ELSE enr
    IN  [local_enr |-> updated, meta_data |-> update_metadata(md, updated)]

\* The arguments of an operation, all in one shape: an operation sets the
\* fields it has. first_sighting is not an argument: it is whether the put of
\* a gossip message's id returned None.
NoArg ==
    [peer_id |-> "", id |-> 0, kind |-> "", gossip_kind |-> GossipKind_BeaconBlock,
     fork_digest |-> 0, subnet_id |-> 0, value |-> FALSE, ok |-> FALSE,
     decodes |-> FALSE, first_sighting |-> FALSE]

\* The record of an operation: its arguments, the value returned ("()",
\* "true", "false", or "Ready" and "Pending" for poll) and, for poll, the
\* event returned.
Op(op, arg, ret, event) == [op |-> op, arg |-> arg, ret |-> ret, event |-> event]

\* A bool returned, as `ret` has it.
Bool(b) == IF b THEN "true" ELSE "false"

(***************************************************************************)
(* The deposit tool, account_manager/src/validator/deposit.rs. A validator *)
(* directory is the record of which of its files exist.                    *)
(***************************************************************************)
ValidatorDir(eth1_deposit_data, eth1_deposit_tx_hash) ==
    [eth1_deposit_data |-> eth1_deposit_data,
     eth1_deposit_tx_hash |-> eth1_deposit_tx_hash]

\* A validator directory as it is before any deposit, one whose tx-hash
\* file exists, and one without the deposit data file.
ValidatorDirs ==
    {ValidatorDir(TRUE, FALSE), ValidatorDir(TRUE, TRUE), ValidatorDir(FALSE, FALSE)}

\* ValidatorDir::eth1_deposit_tx_hash_exists
eth1_deposit_tx_hash_exists(v) == v.eth1_deposit_tx_hash

\* ValidatorDir::eth1_deposit_data: Ok(Some(data)) or Ok(None).
eth1_deposit_data(v) == IF v.eth1_deposit_data THEN "Some" ELSE "None"

\* match validator.as_ref(): the names of the validators opened, or an error.
open_validators(validator) ==
    IF validator = "all"
    THEN [result |-> "Ok", validators |-> AllValidators]
    ELSE IF validator \in Range(AllValidators)
    THEN [result |-> "Ok", validators |-> <<validator>>]
    ELSE [result |-> "Err", validators |-> <<>>]

\* The run of the tool: where it is, the deposits it has yet to make, what
\* it exited with and how many times it was run.
DepositRun(pc, eth1_deposit_datas, result, runs) ==
    [pc |-> pc, eth1_deposit_datas |-> eth1_deposit_datas, result |-> result,
     runs |-> runs]

\* cli_run up to the block_on of deposits_fut: the validators are opened,
\* those with a tx-hash file are left out, the deposit data of the others is
\* read; the testnet dir, the contract address and the IPC path are good or
\* not (setup_ok).
cli_run(dirs, validator, setup_ok, runs) ==
    LET opened == open_validators(validator)
        filtered == SelectSeq(opened.validators,
                              LAMBDA v : ~eth1_deposit_tx_hash_exists(dirs[v]))
    IN  IF opened.result = "Err"
        THEN DepositRun("exited", <<>>, "Err", runs + 1)
        ELSE IF \E i \in 1..Len(filtered) :
                    eth1_deposit_data(dirs[filtered[i]]) = "None"
        THEN DepositRun("exited", <<>>, "Err", runs + 1)
        ELSE IF ~setup_ok
        THEN DepositRun("exited", <<>>, "Err", runs + 1)
        ELSE DepositRun("syncing", filtered, "()", runs + 1)

\* The for loop of deposits_fut with these deposits left: it sends the next
\* transaction, or the run ends with Ok(()).
deposits_loop(eth1_deposit_datas, runs) ==
    IF eth1_deposit_datas = <<>>
    THEN DepositRun("exited", <<>>, "Ok", runs)
    ELSE DepositRun("deposits", eth1_deposit_datas, "()", runs)

\* One turn of the for loop: send_transaction has returned, with a hash
\* (sent) or an error. The directories, the transactions the node has of
\* each validator, and the run.
send_transaction(dirs, txs, run, sent) ==
    LET v == Head(run.eth1_deposit_datas)
    IN  IF sent
        THEN [validator_dirs |-> dirs,
              eth1_txs |-> [txs EXCEPT ![v] = @ + 1],
              deposit_run |-> deposits_loop(Tail(run.eth1_deposit_datas), run.runs)]
        ELSE [validator_dirs |-> dirs,
              eth1_txs |-> txs,
              deposit_run |-> DepositRun("exited", <<>>, "Err", run.runs)]

\* No run of the tool yet, and no transaction sent.
DepositTool_idle ==
    /\ eth1_txs = [v \in Range(AllValidators) |-> 0]
    /\ deposit_run = DepositRun("idle", <<>>, "()", 0)

\* Behaviour::new, with fork digest 0 and an ENR without attnets.
Behaviour_new ==
    /\ events = <<>>
    /\ seen_gossip_messages = <<>>
    /\ gossipsub = {}
    /\ gossipsub_subscriptions = {}
    /\ enr_fork_id = 0
    /\ local_enr = [eth2 |-> 0, attnets |-> {}]
    /\ meta_data = [seq_number |-> 1, attnets |-> {}]
    /\ pm_events = <<>>
    /\ rpc_sent = <<>>
    /\ pm_calls = <<>>
    /\ called = Op("new", NoArg, "()", Poll_Pending)
    /\ identify_info = IdentifyInfo(<<>>)
    /\ enr_updates = 0
    /\ delivered = <<>>
    /\ inserted = <<>>
    /\ enqueued = <<>>
    /\ returned = <<>>

(***************************************************************************)
(* The cache as a state machine: one action per public method.             *)
(***************************************************************************)

cache == [lowest_permissible_epoch |-> lowest_permissible_epoch,
          bitfields |-> bitfields]

IsOk(result) == result \in {"Ok(true)", "Ok(false)"}

Max(a, b) == IF a >= b THEN a ELSE b

\* What every call does to the cache, with the record of the call.
Called(op, epoch, validator_index, r) ==
    /\ lowest_permissible_epoch' = r.cache.lowest_permissible_epoch
    /\ bitfields' = r.cache.bitfields
    /\ last' = [op |-> op, epoch |-> epoch, validator_index |-> validator_index,
                result |-> r.result]
    /\ tick' = ~tick

CallObserve(epoch, validator_index) ==
    Called("observe", epoch, validator_index,
           observe_attesting_validator(cache, epoch, validator_index))

CallHasAttested(epoch, validator_index) ==
    Called("has_attested", epoch, validator_index,
           has_attested(cache, epoch, validator_index))

CallPrune(current_epoch) ==
    Called("prune", current_epoch, 0,
           [cache |-> prune(cache, current_epoch), result |-> "()"])

\* A thread that is in no call; `result` is what its last call returned.
Idle(result) ==
    [pc |-> "idle", op |-> "none", epoch |-> 0, validator_index |-> 0,
     index |-> 0, result |-> result]

\* RwLock::new: no thread holds the lock. `writer` is the thread that holds
\* the write guard (0 when none does), `readers` those that hold a read guard.
RwLock_new == [writer |-> 0, readers |-> {}]

\* The lock can be taken in this mode at once. An RwLock is not reentrant.
RwLock_free(l, mode) ==
    IF mode = "write" THEN l.writer = 0 /\ l.readers = {} ELSE l.writer = 0

\* RwLock::write and RwLock::read, once the guard is handed to thread t.
RwLock_lock(l, t, mode) ==
    IF mode = "write" THEN [l EXCEPT !.writer = t]
    ELSE [l EXCEPT !.readers = @ \cup {t}]

\* The guard of thread t is dropped.
RwLock_unlock(l, t) ==
    [writer |-> IF l.writer = t THEN 0 ELSE l.writer, readers |-> l.readers \ {t}]

\* Thread t holds a guard of the lock.
RwLock_held(l, t) == l.writer = t \/ t \in l.readers

\* ObservedAttesters::default, before any call.
InitCache ==
    /\ lowest_permissible_epoch = 0
    /\ bitfields = <<>>
    /\ last = [op |-> "none", epoch |-> 0, validator_index |-> 0, result |-> "()"]
    /\ tick = FALSE
    /\ watched = FALSE
    /\ max_lpe = 0
    /\ seq_epoch = 0
    /\ seq_observed = FALSE
    /\ seq_seen = {}
    /\ threads = [t \in Threads |-> Idle("none")]
    /\ locks = [lowest_permissible_epoch |-> RwLock_new, bitfields |-> RwLock_new]
    /\ Behaviour_new
    /\ DepositTool_idle

(***************************************************************************)
(* Spec: any sequence of calls, made one after the other. No history is    *)
(* recorded.                                                               *)
(***************************************************************************)
Init ==
    /\ InitCache
    /\ watch = <<0, 0>>
    /\ validator_dirs = [v \in Range(AllValidators) |-> ValidatorDir(TRUE, FALSE)]

Observe ==
    /\ \E epoch \in Epochs, validator_index \in ValidatorIndices :
           CallObserve(epoch, validator_index)
    /\ UNCHANGED <<watch, watched, max_lpe, seq_epoch, seq_observed>>
    /\ UNCHANGED ext_vars

HasAttested ==
    /\ \E epoch \in Epochs, validator_index \in ValidatorIndices :
           CallHasAttested(epoch, validator_index)
    /\ UNCHANGED <<watch, watched, max_lpe, seq_epoch, seq_observed>>
    /\ UNCHANGED ext_vars

Prune ==
    /\ \E current_epoch \in Epochs : CallPrune(current_epoch)
    /\ UNCHANGED <<watch, watched, max_lpe, seq_epoch, seq_observed>>
    /\ UNCHANGED ext_vars

Next == Observe \/ HasAttested \/ Prune

Spec == Init /\ [][Next]_vars

(***************************************************************************)
(* SpecWindow: any sequence of calls with epochs up to MaxWindowEpoch, far *)
(* enough for a call to be two epochs past both retained bitfields.        *)
(* SpecNoPrune: the same without direct calls of prune.                    *)
(***************************************************************************)
WindowObserve ==
    /\ \E epoch \in WindowEpochs, validator_index \in ValidatorIndices :
           CallObserve(epoch, validator_index)
    /\ UNCHANGED <<watch, watched, max_lpe, seq_epoch, seq_observed>>
    /\ UNCHANGED ext_vars

WindowHasAttested ==
    /\ \E epoch \in WindowEpochs, validator_index \in ValidatorIndices :
           CallHasAttested(epoch, validator_index)
    /\ UNCHANGED <<watch, watched, max_lpe, seq_epoch, seq_observed>>
    /\ UNCHANGED ext_vars

WindowPrune ==
    /\ \E current_epoch \in WindowEpochs : CallPrune(current_epoch)
    /\ UNCHANGED <<watch, watched, max_lpe, seq_epoch, seq_observed>>
    /\ UNCHANGED ext_vars

NextWindow == WindowObserve \/ WindowHasAttested \/ WindowPrune

SpecWindow == Init /\ [][NextWindow]_vars

NextNoPrune == WindowObserve \/ WindowHasAttested

SpecNoPrune == Init /\ [][NextNoPrune]_vars

(***************************************************************************)
(* SpecWatch: the same calls, with the history of one (epoch, validator    *)
(* index) pair, any pair within the registry limit: `watched` becomes true *)
(* when an observe of that pair returns Ok.                                *)
(***************************************************************************)
InitWatch ==
    /\ InitCache
    /\ watch \in Epochs \X (0..ValidatorRegistryLimit)
    /\ validator_dirs = [v \in Range(AllValidators) |-> ValidatorDir(TRUE, FALSE)]

RecordWatch ==
    /\ watched' = (watched \/ (/\ last'.op = "observe"
                               /\ <<last'.epoch, last'.validator_index>> = watch
                               /\ IsOk(last'.result)))
    /\ UNCHANGED <<watch, max_lpe, seq_epoch, seq_observed>>
    /\ UNCHANGED ext_vars

WatchObserve ==
    /\ \E epoch \in Epochs, validator_index \in ValidatorIndices :
           CallObserve(epoch, validator_index)
    /\ RecordWatch

WatchHasAttested ==
    /\ \E epoch \in Epochs, validator_index \in ValidatorIndices :
           CallHasAttested(epoch, validator_index)
    /\ RecordWatch

WatchPrune ==
    /\ \E current_epoch \in Epochs : CallPrune(current_epoch)
    /\ RecordWatch

NextWatch == WatchObserve \/ WatchHasAttested \/ WatchPrune

SpecWatch == InitWatch /\ [][NextWatch]_vars

(***************************************************************************)
(* SpecStale: the same calls, with the history of the highest value        *)
(* lowest_permissible_epoch has had.                                       *)
(***************************************************************************)
RecordStale ==
    /\ max_lpe' = Max(max_lpe, lowest_permissible_epoch')
    /\ UNCHANGED <<watch, watched, seq_epoch, seq_observed>>
    /\ UNCHANGED ext_vars

StaleObserve ==
    /\ \E epoch \in Epochs, validator_index \in ValidatorIndices :
           CallObserve(epoch, validator_index)
    /\ RecordStale

StaleHasAttested ==
    /\ \E epoch \in Epochs, validator_index \in ValidatorIndices :
           CallHasAttested(epoch, validator_index)
    /\ RecordStale

StalePrune ==
    /\ \E current_epoch \in Epochs : CallPrune(current_epoch)
    /\ RecordStale

NextStale == StaleObserve \/ StaleHasAttested \/ StalePrune

SpecStale == Init /\ [][NextStale]_vars

(***************************************************************************)
(* SpecContiguous: the loop of tests::mulitple_contiguous_epochs. For      *)
(* epoch 0, 1, ... in turn, has_attested and observe_attesting_validator   *)
(* are called for that epoch (single_epoch_test), then the loop moves on.  *)
(***************************************************************************)
SeqHasAttested ==
    /\ \E validator_index \in 0..ValidatorRegistryLimit :
           CallHasAttested(seq_epoch, validator_index)
    /\ UNCHANGED <<watch, watched, max_lpe, seq_epoch, seq_observed>>
    /\ UNCHANGED ext_vars

SeqObserve ==
    /\ \E validator_index \in 0..ValidatorRegistryLimit :
           CallObserve(seq_epoch, validator_index)
    /\ seq_observed' = TRUE
    /\ UNCHANGED <<watch, watched, max_lpe, seq_epoch>>
    /\ UNCHANGED ext_vars

SeqNextEpoch ==
    /\ seq_observed
    /\ seq_epoch < MaxEpoch
    /\ seq_epoch' = seq_epoch + 1
    /\ seq_observed' = FALSE
    /\ UNCHANGED <<lowest_permissible_epoch, bitfields, last, tick, watch,
                   watched, max_lpe>>
    /\ UNCHANGED ext_vars

NextContiguous == SeqHasAttested \/ SeqObserve \/ SeqNextEpoch

SpecContiguous == Init /\ [][NextContiguous]_vars

(***************************************************************************)
(* SpecGaps: the loop of tests::mulitple_non_contiguous_epochs. As in      *)
(* SpecContiguous, but the loop moves on to any later epoch, so epochs may *)
(* be skipped; seq_seen is the set of epochs the loop has observed at.     *)
(***************************************************************************)
GapHasAttested ==
    /\ \E validator_index \in 0..ValidatorRegistryLimit :
           CallHasAttested(seq_epoch, validator_index)
    /\ UNCHANGED <<watch, watched, max_lpe, seq_epoch, seq_observed, seq_seen,
                   threads, locks, behaviour_vars, deposit_vars>>

GapObserve ==
    /\ \E validator_index \in 0..ValidatorRegistryLimit :
           CallObserve(seq_epoch, validator_index)
    /\ seq_observed' = TRUE
    /\ seq_seen' = seq_seen \cup {seq_epoch}
    /\ UNCHANGED <<watch, watched, max_lpe, seq_epoch, threads, locks,
                   behaviour_vars, deposit_vars>>

GapNextEpoch ==
    /\ seq_observed
    /\ \E epoch \in Epochs :
           /\ epoch > seq_epoch
           /\ seq_epoch' = epoch
    /\ seq_observed' = FALSE
    /\ UNCHANGED <<lowest_permissible_epoch, bitfields, last, tick, watch,
                   watched, max_lpe, seq_seen, threads, locks, behaviour_vars,
                   deposit_vars>>

NextGaps == GapHasAttested \/ GapObserve \/ GapNextEpoch

SpecGaps == Init /\ [][NextGaps]_vars

(***************************************************************************)
(* SpecConcurrent: threads that share one cache. The two fields are behind *)
(* two separate RwLocks, and every guard is dropped at the end of the      *)
(* statement or function that took it, so a call is a sequence of critical *)
(* sections, each atomic, between which the other threads run:             *)
(*   get_bitfield_index  read of lowest_permissible_epoch (line 138), then *)
(*                       prune if the epoch is beyond the window, then the *)
(*                       selection under bitfields.write() (152-186);      *)
(*   prune               retain under bitfields.write() (131-133), then    *)
(*                       the store under lowest_permissible_epoch.write()  *)
(*                       (134);                                            *)
(*   observe/has_attested  after get_bitfield_index has returned, the      *)
(*                       access to the bitfield under a lock on bitfields  *)
(*                       taken anew (100-105, 111-115).                    *)
(***************************************************************************)

\* Lines 152-186 of get_bitfield_index, under bitfields.write(): the Vec after
\* them and the index returned.
get_bitfield_index_locked(bfs, epoch) ==
    IF position(bfs, epoch) # -1
    THEN [bitfields |-> bfs, index |-> position(bfs, epoch)]
    ELSE IF Len(bfs) < max_capacity \/ bfs = <<>>
    THEN [bitfields |-> Append(bfs, EpochBitfield_new(epoch)), index |-> Len(bfs)]
    ELSE [bitfields |-> [bfs EXCEPT ![min_by_key_epoch(bfs) + 1] = EpochBitfield_new(epoch)],
          index |-> min_by_key_epoch(bfs)]

\* What the threads leave alone.
ConcFrame ==
    UNCHANGED <<last, tick, watch, watched, max_lpe, seq_epoch, seq_observed,
                seq_seen, locks, behaviour_vars, deposit_vars>>

\* A thread enters observe_attesting_validator or has_attested, and in
\* get_bitfield_index reads lowest_permissible_epoch: the two tests on the
\* value read decide where the call goes.
ConcBegin ==
    /\ ConcFrame
    /\ \E t \in Threads, op \in {"observe", "has_attested"},
       epoch \in Epochs, validator_index \in ValidatorIndices :
        /\ threads[t].pc = "idle"
        /\ threads' = [threads EXCEPT ![t] =
               IF epoch < lowest_permissible_epoch
               THEN Idle("EpochTooLow")
               ELSE [pc |-> IF lowest_permissible_epoch + max_capacity < epoch + 1
                            THEN "prune_retain" ELSE "select",
                     op |-> op, epoch |-> epoch,
                     validator_index |-> validator_index,
                     index |-> 0, result |-> "none"]]
        /\ UNCHANGED <<lowest_permissible_epoch, bitfields>>

\* prune, called from get_bitfield_index: the retain.
ConcPruneRetain ==
    /\ ConcFrame
    /\ \E t \in Threads :
        /\ threads[t].pc = "prune_retain"
        /\ bitfields' = retain(bitfields,
               saturating_sub(threads[t].epoch, saturating_sub(max_capacity, 1)))
        /\ threads' = [threads EXCEPT ![t].pc = "prune_store"]
        /\ UNCHANGED lowest_permissible_epoch

\* A thread calls prune itself: the retain.
ConcCallPrune ==
    /\ ConcFrame
    /\ \E t \in Threads, current_epoch \in Epochs :
        /\ threads[t].pc = "idle"
        /\ bitfields' = retain(bitfields,
               saturating_sub(current_epoch, saturating_sub(max_capacity, 1)))
        /\ threads' = [threads EXCEPT ![t] =
               [pc |-> "prune_store", op |-> "prune", epoch |-> current_epoch,
                validator_index |-> 0, index |-> 0, result |-> "none"]]
        /\ UNCHANGED lowest_permissible_epoch

\* prune: the store of the new lowest_permissible_epoch.
ConcPruneStore ==
    /\ ConcFrame
    /\ \E t \in Threads :
        /\ threads[t].pc = "prune_store"
        /\ lowest_permissible_epoch' =
               saturating_sub(threads[t].epoch, saturating_sub(max_capacity, 1))
        /\ threads' = [threads EXCEPT ![t] =
               IF threads[t].op = "prune" THEN Idle("()")
               ELSE [threads[t] EXCEPT !.pc = "select"]]
        /\ UNCHANGED bitfields

\* get_bitfield_index: the selection of the bitfield of the epoch.
ConcSelect ==
    /\ ConcFrame
    /\ \E t \in Threads :
        /\ threads[t].pc = "select"
        /\ LET g == get_bitfield_index_locked(bitfields, threads[t].epoch)
           IN  /\ bitfields' = g.bitfields
               /\ threads' = [threads EXCEPT ![t].pc = "access",
                                             ![t].index = g.index]
        /\ UNCHANGED lowest_permissible_epoch

\* observe_attesting_validator or has_attested: the access to the bitfield at
\* the index that get_bitfield_index returned.
ConcAccess ==
    /\ ConcFrame
    /\ \E t \in Threads :
        /\ threads[t].pc = "access"
        /\ LET index == threads[t].index
               validator_index == threads[t].validator_index
           IN  IF index >= Len(bitfields)
               THEN /\ threads' = [threads EXCEPT ![t] = Idle("InvalidBitfieldIndex")]
                    /\ UNCHANGED bitfields
               ELSE IF threads[t].op = "observe"
               THEN LET o == EpochBitfield_observe_attesting_validator(
                                 bitfields[index + 1], validator_index)
                    IN  /\ bitfields' = [bitfields EXCEPT ![index + 1] = o.b]
                        /\ threads' = [threads EXCEPT ![t] = Idle(o.result)]
               ELSE /\ threads' = [threads EXCEPT ![t] =
                           Idle(EpochBitfield_has_attested(bitfields[index + 1],
                                                           validator_index))]
                    /\ UNCHANGED bitfields
        /\ UNCHANGED lowest_permissible_epoch

NextConcurrent ==
    ConcBegin \/ ConcCallPrune \/ ConcPruneRetain \/ ConcPruneStore
        \/ ConcSelect \/ ConcAccess

SpecConcurrent == Init /\ [][NextConcurrent]_vars

(***************************************************************************)
(* SpecLocks: the same calls of the threads, with the two RwLocks: a       *)
(* thread first waits for the lock of a critical section (pc "lock_..."),  *)
(* then runs the section with the guard, which is dropped at its end. The  *)
(* sections are those of SpecConcurrent, and the read of                   *)
(* lowest_permissible_epoch (138) is one of its own.                       *)
(***************************************************************************)
Sections == {"read_floor", "prune_retain", "prune_store", "select", "access"}

\* The pc of a thread that waits for the lock of a section.
LockPc ==
    [read_floor |-> "lock_read_floor", prune_retain |-> "lock_prune_retain",
     prune_store |-> "lock_prune_store", select |-> "lock_select",
     access |-> "lock_access"]

\* The lock a section takes and how: lowest_permissible_epoch.read() (138),
\* bitfields.write() (130, 152, 100), lowest_permissible_epoch.write() (134),
\* bitfields.read() (111).
section_lock(section, op) ==
    IF section = "read_floor"
    THEN [field |-> "lowest_permissible_epoch", mode |-> "read"]
    ELSE IF section = "prune_store"
    THEN [field |-> "lowest_permissible_epoch", mode |-> "write"]
    ELSE IF section = "access" /\ op = "has_attested"
    THEN [field |-> "bitfields", mode |-> "read"]
    ELSE [field |-> "bitfields", mode |-> "write"]

\* Mutant: the guard that get_bitfield_index takes at 152 is still held when
\* the caller goes on to take the lock again.
guards_kept_select(section) == IF section = "select" THEN {"bitfields"} ELSE {}

\* The locks whose guard is still held after a section: none, each guard is
\* a temporary of one statement (130-132, 134, 138, 100-105, 111-115) or a
\* local of get_bitfield_index, dropped when it returns (152-186).
guards_kept(section) == {}

\* The guards of thread t are dropped at the end of a section.
DropGuards(t, section) ==
    locks' = [f \in DOMAIN locks |->
                 IF f \in guards_kept(section) THEN locks[f]
                 ELSE RwLock_unlock(locks[f], t)]

\* The calls of SpecLocks are for one validator: which bit a call sets or
\* tests has no part in which locks it takes.
LockValidatorIndices == {0}

LockFrame ==
    UNCHANGED <<last, tick, watch, watched, max_lpe, seq_epoch, seq_observed,
                seq_seen, behaviour_vars, deposit_vars>>

\* A thread calls observe_attesting_validator, has_attested or prune.
LockCall ==
    /\ LockFrame
    /\ \E t \in Threads, op \in {"observe", "has_attested", "prune"},
       epoch \in Epochs, validator_index \in LockValidatorIndices :
        /\ threads[t].pc = "idle"
        /\ threads' = [threads EXCEPT ![t] =
               [pc |-> IF op = "prune" THEN LockPc.prune_retain
                       ELSE LockPc.read_floor,
                op |-> op, epoch |-> epoch, validator_index |-> validator_index,
                index |-> 0, result |-> "none"]]
    /\ UNCHANGED <<lowest_permissible_epoch, bitfields, locks>>

\* Thread t is handed the guard it waits for.
Acquire(t) ==
    /\ LockFrame
    /\ \E section \in Sections :
        /\ threads[t].pc = LockPc[section]
        /\ LET l == section_lock(section, threads[t].op)
           IN  /\ RwLock_free(locks[l.field], l.mode)
               /\ locks' = [locks EXCEPT ![l.field] = RwLock_lock(@, t, l.mode)]
        /\ threads' = [threads EXCEPT ![t].pc = section]
    /\ UNCHANGED <<lowest_permissible_epoch, bitfields>>

LockAcquire == \E t \in Threads : Acquire(t)

\* get_bitfield_index: the read of lowest_permissible_epoch and the two tests
\* on the value read.
ReadFloor(t) ==
    /\ LockFrame
    /\ threads[t].pc = "read_floor"
    /\ threads' = [threads EXCEPT ![t] =
           IF threads[t].epoch < lowest_permissible_epoch
           THEN Idle("EpochTooLow")
           ELSE [threads[t] EXCEPT !.pc =
                    IF lowest_permissible_epoch + max_capacity < threads[t].epoch + 1
                    THEN LockPc.prune_retain ELSE LockPc.select]]
    /\ DropGuards(t, "read_floor")
    /\ UNCHANGED <<lowest_permissible_epoch, bitfields>>

\* prune: the retain.
PruneRetain(t) ==
    /\ LockFrame
    /\ threads[t].pc = "prune_retain"
    /\ bitfields' = retain(bitfields,
           saturating_sub(threads[t].epoch, saturating_sub(max_capacity, 1)))
    /\ threads' = [threads EXCEPT ![t].pc = LockPc.prune_store]
    /\ DropGuards(t, "prune_retain")
    /\ UNCHANGED lowest_permissible_epoch

\* prune: the store of the new lowest_permissible_epoch.
PruneStore(t) ==
    /\ LockFrame
    /\ threads[t].pc = "prune_store"
    /\ lowest_permissible_epoch' =
           saturating_sub(threads[t].epoch, saturating_sub(max_capacity, 1))
    /\ threads' = [threads EXCEPT ![t] =
           IF threads[t].op = "prune" THEN Idle("()")
           ELSE [threads[t] EXCEPT !.pc = LockPc.select]]
    /\ DropGuards(t, "prune_store")
    /\ UNCHANGED bitfields

\* get_bitfield_index: the selection of the bitfield of the epoch.
Select(t) ==
    /\ LockFrame
    /\ threads[t].pc = "select"
    /\ LET g == get_bitfield_index_locked(bitfields, threads[t].epoch)
       IN  /\ bitfields' = g.bitfields
           /\ threads' = [threads EXCEPT ![t].pc = LockPc.access,
                                         ![t].index = g.index]
    /\ DropGuards(t, "select")
    /\ UNCHANGED lowest_permissible_epoch

\* observe_attesting_validator or has_attested: the access to the bitfield at
\* the index that get_bitfield_index returned.
Access(t) ==
    /\ LockFrame
    /\ threads[t].pc = "access"
    /\ LET index == threads[t].index
           validator_index == threads[t].validator_index
       IN  IF index >= Len(bitfields)
           THEN /\ threads' = [threads EXCEPT ![t] = Idle("InvalidBitfieldIndex")]
                /\ UNCHANGED bitfields
           ELSE IF threads[t].op = "observe"
           THEN LET o == EpochBitfield_observe_attesting_validator(
                             bitfields[index + 1], validator_index)
                IN  /\ bitfields' = [bitfields EXCEPT ![index + 1] = o.b]
                    /\ threads' = [threads EXCEPT ![t] = Idle(o.result)]
           ELSE /\ threads' = [threads EXCEPT ![t] =
                       Idle(EpochBitfield_has_attested(bitfields[index + 1],
                                                       validator_index))]
                /\ UNCHANGED bitfields
    /\ DropGuards(t, "access")
    /\ UNCHANGED lowest_permissible_epoch

LockReadFloor == \E t \in Threads : ReadFloor(t)

LockPruneRetain == \E t \in Threads : PruneRetain(t)

LockPruneStore == \E t \in Threads : PruneStore(t)

LockSelect == \E t \in Threads : Select(t)

LockAccess == \E t \in Threads : Access(t)

NextLocks ==
    LockCall \/ LockAcquire \/ LockReadFloor \/ LockPruneRetain \/ LockPruneStore
        \/ LockSelect \/ LockAccess

SpecLocks == Init /\ [][NextLocks]_vars

\* SpecLocksFair: a thread that holds a guard goes on, and a thread that
\* waits for a lock that is free again and again is handed it in the end
\* (parking_lot's RwLock is eventually fair).
SpecLocksFair ==
    /\ Init
    /\ [][NextLocks]_vars
    /\ \A t \in Threads :
           /\ WF_vars(ReadFloor(t) \/ PruneRetain(t) \/ PruneStore(t) \/ Select(t)
                          \/ Access(t))
           /\ SF_vars(Acquire(t))

(***************************************************************************)
(* The Behaviour as a state machine: one action per method or handler.     *)
(* `called` records the operation, `rpc_sent` and `pm_calls` what it sent  *)
(* and what it called on the peer manager. An event is pushed to `events`  *)
(* at most MaxEvents times in a behaviour.                                 *)
(***************************************************************************)
cache_vars == <<lowest_permissible_epoch, bitfields, last, tick, watch, watched,
                max_lpe, seq_epoch, seq_observed, seq_seen, threads, locks>>

subscription_vars == <<gossipsub, gossipsub_subscriptions, enr_fork_id>>

\* self.events.push(..) of each event of `pushed`.
Push(pushed) ==
    /\ events' = events \o pushed
    /\ enqueued' = enqueued \o pushed


\* inject_event(GossipsubEvent::Message(..))
GossipMessage ==
    /\ Len(enqueued) < MaxEvents
    /\ \E propagation_source \in PeerIds, id \in MessageIds, decodes \in BOOLEAN :
           LET r == inject_gossipsub_message(seen_gossip_messages,
                                             propagation_source, id, decodes)
           IN  /\ seen_gossip_messages' = r.seen_gossip_messages
               /\ Push(r.pushed)
               /\ delivered' = <<id>> \o Without(delivered, id)
               /\ inserted' =
                      IF r.is_none
                      THEN <<id>> \o SelectSeq(inserted,
                               LAMBDA x : x \in Range(r.seen_gossip_messages))
                      ELSE inserted
               /\ called' = Op("GossipsubEvent::Message",
                               [NoArg EXCEPT !.peer_id = propagation_source,
                                             !.id = id, !.decodes = decodes,
                                             !.first_sighting = r.is_none],
                               "()", Poll_Pending)
    /\ rpc_sent' = <<>>
    /\ pm_calls' = <<>>
    /\ UNCHANGED <<subscription_vars, local_enr, meta_data, enr_updates, pm_events, returned>>
    /\ UNCHANGED <<cache_vars, deposit_vars, identify_info>>

\* inject_event(GossipsubEvent::Subscribed {peer_id, topic})
GossipSubscribed ==
    /\ Len(enqueued) < MaxEvents
    /\ \E peer_id \in PeerIds :
           /\ Push(<<BehaviourEvent("PeerSubscribed", peer_id, 0, "topic")>>)
           /\ called' = Op("GossipsubEvent::Subscribed",
                           [NoArg EXCEPT !.peer_id = peer_id], "()", Poll_Pending)
    /\ rpc_sent' = <<>>
    /\ pm_calls' = <<>>
    /\ UNCHANGED <<seen_gossip_messages, delivered, inserted, subscription_vars, local_enr,
                   meta_data, enr_updates, pm_events, returned>>
    /\ UNCHANGED <<cache_vars, deposit_vars, identify_info>>

\* inject_event(GossipsubEvent::Unsubscribed {..})
GossipUnsubscribed ==
    /\ \E peer_id \in PeerIds :
           called' = Op("GossipsubEvent::Unsubscribed",
                        [NoArg EXCEPT !.peer_id = peer_id], "()", Poll_Pending)
    /\ rpc_sent' = <<>>
    /\ pm_calls' = <<>>
    /\ UNCHANGED <<events, enqueued, seen_gossip_messages, delivered, inserted,
                   subscription_vars, local_enr, meta_data, enr_updates, pm_events, returned>>
    /\ UNCHANGED <<cache_vars, deposit_vars, identify_info>>

\* inject_event(RPCMessage {peer_id, event})
InjectRpc ==
    /\ Len(enqueued) < MaxEvents
    /\ \E peer_id \in PeerIds, id \in RequestIds, kind \in RPCEventKinds :
           LET r == inject_rpc(meta_data, peer_id, id, kind)
           IN  /\ Push(r.pushed)
               /\ rpc_sent' = r.rpc_sent
               /\ pm_calls' = r.pm_calls
               /\ called' = Op("RPCMessage",
                               [NoArg EXCEPT !.peer_id = peer_id, !.id = id,
                                             !.kind = kind],
                               "()", Poll_Pending)
    /\ UNCHANGED <<seen_gossip_messages, delivered, inserted, subscription_vars, local_enr,
                   meta_data, enr_updates, pm_events, returned>>
    /\ UNCHANGED <<cache_vars, deposit_vars, identify_info>>

\* The peer manager has one more event ready for poll_next_unpin.
PeerManagerEvent ==
    /\ Len(pm_events) < MaxDirectives
    /\ \E kind \in PeerManagerEventKinds, peer_id \in PeerIds :
           /\ pm_events' = Append(pm_events, [kind |-> kind, peer_id |-> peer_id])
           /\ called' = Op("PeerManagerEvent",
                           [NoArg EXCEPT !.kind = kind, !.peer_id = peer_id],
                           "()", Poll_Pending)
    /\ rpc_sent' = <<>>
    /\ pm_calls' = <<>>
    /\ UNCHANGED <<events, enqueued, seen_gossip_messages, delivered, inserted,
                   subscription_vars, local_enr, meta_data, enr_updates, returned>>
    /\ UNCHANGED <<cache_vars, deposit_vars, identify_info>>

\* Behaviour::poll
Poll ==
    /\ LET r == poll(pm_events, events, meta_data.seq_number)
       IN  /\ pm_events' = r.pm_events
           /\ rpc_sent' = r.rpc_sent
           /\ events' = r.events
           /\ returned' = returned \o r.taken
           /\ called' = Op("poll", NoArg,
                           IF r.ret = Poll_Pending THEN "Pending" ELSE "Ready",
                           r.ret)
    /\ pm_calls' = <<>>
    /\ UNCHANGED <<enqueued, seen_gossip_messages, delivered, inserted, subscription_vars,
                   local_enr, meta_data, enr_updates>>
    /\ UNCHANGED <<cache_vars, deposit_vars, identify_info>>

(***************************************************************************)
(* SpecGossip: the events of the gossipsub engine, and poll.               *)
(***************************************************************************)
NextGossip == GossipMessage \/ GossipSubscribed \/ GossipUnsubscribed \/ Poll

SpecGossip == Init /\ [][NextGossip]_vars

(***************************************************************************)
(* SpecRpc: the events of the RPC engine, and poll.                        *)
(***************************************************************************)
NextRpc == InjectRpc \/ Poll

SpecRpc == Init /\ [][NextRpc]_vars

(***************************************************************************)
(* SpecPoll: the events of the peer manager's stream and poll, with events *)
(* pushed to `events` in between (those of peers that subscribe).          *)
(***************************************************************************)
NextPoll == PeerManagerEvent \/ GossipSubscribed \/ Poll

SpecPoll == Init /\ [][NextPoll]_vars

\* SpecPollFair: poll is called again and again (the swarm polls the
\* behaviour whenever it is woken, and again after every Poll::Ready).
SpecPollFair == Init /\ [][NextPoll]_vars /\ WF_vars(Poll)

(***************************************************************************)
(* SpecSubscriptions: the methods that subscribe and unsubscribe, and the  *)
(* updates of the fork version and of the ENR's subnets.                   *)
(***************************************************************************)

\* What those methods leave alone.
SubscriptionFrame ==
    /\ rpc_sent' = <<>>
    /\ pm_calls' = <<>>
    /\ UNCHANGED <<events, enqueued, returned, seen_gossip_messages, delivered, inserted,
                   pm_events>>
    /\ UNCHANGED <<cache_vars, deposit_vars, identify_info>>

\* A subscribe or unsubscribe method has returned r.
Subscribed(op, kind, r) ==
    /\ gossipsub' = r.gossipsub
    /\ gossipsub_subscriptions' = r.gossipsub_subscriptions
    /\ called' = Op(op, [NoArg EXCEPT !.gossip_kind = kind], Bool(r.ret),
                     Poll_Pending)
    /\ UNCHANGED <<enr_fork_id, local_enr, meta_data, enr_updates>>

SubscribeKind ==
    /\ \E kind \in GossipKinds :
           Subscribed("subscribe_kind", kind,
                      subscribe_kind(gossipsub, gossipsub_subscriptions,
                                     enr_fork_id, kind))
    /\ SubscriptionFrame

UnsubscribeKind ==
    /\ \E kind \in GossipKinds :
           Subscribed("unsubscribe_kind", kind,
                      unsubscribe_kind(gossipsub, gossipsub_subscriptions,
                                       enr_fork_id, kind))
    /\ SubscriptionFrame

SubscribeToSubnet ==
    /\ \E subnet_id \in SubnetIds :
           Subscribed("subscribe_to_subnet", GossipKind_CommitteeIndex(subnet_id),
                      subscribe_kind(gossipsub, gossipsub_subscriptions,
                                     enr_fork_id,
                                     GossipKind_CommitteeIndex(subnet_id)))
    /\ SubscriptionFrame

UnsubscribeFromSubnet ==
    /\ \E subnet_id \in SubnetIds :
           Subscribed("unsubscribe_from_subnet",
                      GossipKind_CommitteeIndex(subnet_id),
                      unsubscribe_kind(gossipsub, gossipsub_subscriptions,
                                       enr_fork_id,
                                       GossipKind_CommitteeIndex(subnet_id)))
    /\ SubscriptionFrame

UpdateForkVersion ==
    /\ \E fork_digest \in ForkDigests :
           LET r == update_fork_version(gossipsub, gossipsub_subscriptions,
                                        fork_digest)
           IN  /\ local_enr' = Discovery_update_eth2_enr(local_enr, fork_digest)
               /\ gossipsub' = r.gossipsub
               /\ gossipsub_subscriptions' = r.gossipsub_subscriptions
               /\ enr_fork_id' = fork_digest
               /\ called' = Op("update_fork_version",
                               [NoArg EXCEPT !.fork_digest = fork_digest],
                               "()", Poll_Pending)
    /\ UNCHANGED <<meta_data, enr_updates>>
    /\ SubscriptionFrame

UpdateEnrSubnet ==
    /\ meta_data.seq_number < MaxSeqNumber
    /\ \E subnet_id \in SubnetIds, value \in BOOLEAN, ok \in BOOLEAN :
           LET r == update_enr_subnet(meta_data, local_enr, subnet_id, value, ok)
           IN  /\ local_enr' = r.local_enr
               /\ meta_data' = r.meta_data
               /\ enr_updates' = enr_updates + 1
               /\ called' = Op("update_enr_subnet",
                               [NoArg EXCEPT !.subnet_id = subnet_id,
                                             !.value = value, !.ok = ok],
                               "()", Poll_Pending)
    /\ UNCHANGED subscription_vars
    /\ SubscriptionFrame

NextSubscriptions ==
    SubscribeKind \/ UnsubscribeKind \/ SubscribeToSubnet \/ UnsubscribeFromSubnet
        \/ UpdateForkVersion \/ UpdateEnrSubnet

SpecSubscriptions == Init /\ [][NextSubscriptions]_vars

(***************************************************************************)
(* SpecReplies: the events of the RPC engine, with updates of the subnets  *)
(* of the ENR in between.                                                  *)
(***************************************************************************)
NextReplies == InjectRpc \/ UpdateEnrSubnet

SpecReplies == Init /\ [][NextReplies]_vars

(***************************************************************************)
(* SpecIdentify: the events of the identify engine. The engine reads the   *)
(* addresses a peer advertises one by one, then hands the info over.       *)
(***************************************************************************)
\* The identify engine reads one more address of the peer's message.
IdentifyAddress ==
    /\ Len(identify_info.listen_addrs) < MaxListenAddrs
    /\ \E addr \in Multiaddrs :
           identify_info' = [identify_info EXCEPT !.listen_addrs = Append(@, addr)]
    /\ called' = Op("IdentifyInfo", NoArg, "()", Poll_Pending)
    /\ rpc_sent' = <<>>
    /\ pm_calls' = <<>>
    /\ UNCHANGED <<events, enqueued, seen_gossip_messages, delivered, inserted,
                   subscription_vars, local_enr, meta_data, enr_updates, pm_events, returned>>
    /\ UNCHANGED <<cache_vars, deposit_vars>>

\* inject_event(IdentifyEvent)
InjectIdentify ==
    /\ \E kind \in IdentifyEventKinds, peer_id \in PeerIds :
           LET r == inject_identify(kind, peer_id, identify_info)
           IN  /\ pm_calls' = r.pm_calls
               /\ called' = Op("IdentifyEvent",
                               [NoArg EXCEPT !.kind = kind, !.peer_id = peer_id],
                               "()", Poll_Pending)
    /\ rpc_sent' = <<>>
    /\ UNCHANGED <<events, enqueued, seen_gossip_messages, delivered, inserted,
                   subscription_vars, local_enr, meta_data, enr_updates, pm_events, returned,
                   identify_info>>
    /\ UNCHANGED <<cache_vars, deposit_vars>>

NextIdentify == IdentifyAddress \/ InjectIdentify

SpecIdentify == Init /\ [][NextIdentify]_vars

(***************************************************************************)
(* SpecDeposit: runs of the deposit tool, one after the other, on a data   *)
(* dir whose validator directories exist, some with a tx-hash file, some   *)
(* without deposit data.                                                   *)
(***************************************************************************)
InitDeposit ==
    /\ InitCache
    /\ watch = <<0, 0>>
    /\ validator_dirs \in [Range(AllValidators) -> ValidatorDirs]

DepositFrame ==
    UNCHANGED <<lowest_permissible_epoch, bitfields, last, tick, watch, watched,
                max_lpe, seq_epoch, seq_observed, seq_seen, threads, locks,
                behaviour_vars>>

\* The tool is started: cli_run up to the block_on of deposits_fut.
CliRun ==
    /\ DepositFrame
    /\ deposit_run.pc \in {"idle", "exited"}
    /\ deposit_run.runs < MaxRuns
    /\ \E validator \in ValidatorArgs, setup_ok \in BOOLEAN :
           deposit_run' = cli_run(validator_dirs, validator, setup_ok,
                                  deposit_run.runs)
    /\ UNCHANGED <<validator_dirs, eth1_txs>>

\* poll_until_synced returns: the node is synced, or a request to it failed.
PollUntilSynced ==
    /\ DepositFrame
    /\ deposit_run.pc = "syncing"
    /\ \E synced \in BOOLEAN :
           deposit_run' =
               IF synced
               THEN deposits_loop(deposit_run.eth1_deposit_datas, deposit_run.runs)
               ELSE DepositRun("exited", <<>>, "Err", deposit_run.runs)
    /\ UNCHANGED <<validator_dirs, eth1_txs>>

\* One turn of the for loop of deposits_fut.
SendTransaction ==
    /\ DepositFrame
    /\ deposit_run.pc = "deposits"
    /\ \E sent \in BOOLEAN :
           LET r == send_transaction(validator_dirs, eth1_txs, deposit_run, sent)
           IN  /\ validator_dirs' = r.validator_dirs
               /\ eth1_txs' = r.eth1_txs
               /\ deposit_run' = r.deposit_run

NextDeposit == CliRun \/ PollUntilSynced \/ SendTransaction

SpecDeposit == InitDeposit /\ [][NextDeposit]_vars

(***************************************************************************)
(* What the claims speak of.                                               *)
(***************************************************************************)

\* The epochs that have a retained bitfield.
RetainedEpochs(bfs) == {bfs[i].epoch : i \in 1..Len(bfs)}

\* Bit validator_index of a retained bitfield of `epoch` is set.
BitSet(bfs, epoch, validator_index) ==
    \E i \in 1..Len(bfs) :
        /\ bfs[i].epoch = epoch
        /\ validator_index < Len(bfs[i].bitfield)
        /\ bfs[i].bitfield[validator_index + 1]

\* The (epoch, validator index) pairs whose bit is set in a retained bitfield.
ObservedBits(bfs) ==
    {p \in RetainedEpochs(bfs) \X ValidatorIndices : BitSet(bfs, p[1], p[2])}

\* The length of the bitfield retained for `epoch`, 0 when there is none.
BitfieldLen(bfs, epoch) ==
    IF position(bfs, epoch) = -1 THEN 0
    ELSE Len(bfs[position(bfs, epoch) + 1].bitfield)

\* The step is a call of observe_attesting_validator or of has_attested.
IsQuery(l) == l.op \in {"observe", "has_attested"}

\* The step leaves lowest_permissible_epoch, the retained epochs and the
\* observed bits as they were.
CacheUnchanged ==
    /\ lowest_permissible_epoch' = lowest_permissible_epoch
    /\ RetainedEpochs(bitfields') = RetainedEpochs(bitfields)
    /\ ObservedBits(bitfields') = ObservedBits(bitfields)

(***************************************************************************)
(* The claims.                                                             *)
(***************************************************************************)

\* C1 (as claimed; SpecWatch): for the watched pair (E, V), V within the limit,
\* an observe(E, V) made before any observe(E, V) has returned Ok returns
\* Ok(false) unless it is rejected with EpochTooLow, and every observe(E, V) or
\* has_attested(E, V) made after one has returned Ok returns Ok(true) unless it
\* is rejected with EpochTooLow.
C1_Idempotence ==
    [][(/\ IsQuery(last')
        /\ <<last'.epoch, last'.validator_index>> = watch
        /\ last'.result # "EpochTooLow")
       => IF watched
          THEN last'.result = "Ok(true)"
          ELSE (last'.op = "observe" => last'.result = "Ok(false)")]_vars

\* C2 (SpecWatch): has_attested(E, V) for the watched pair returns Ok(false) as
\* long as no observe(E, V) has returned Ok and E is not below the floor,
\* whatever else was observed; and an observe(E, V) that returns Ok(false) sets
\* bit V of epoch E, sets no other bit of any retained bitfield, and leaves the
\* bitfield of E with the length it had, or V + 1 if that is more.
C2_UnknownBeforeObserved ==
    [][/\ (/\ last'.op = "has_attested"
           /\ <<last'.epoch, last'.validator_index>> = watch
           /\ ~watched
           /\ last'.epoch >= lowest_permissible_epoch)
          => last'.result = "Ok(false)"
       /\ (last'.op = "observe" /\ last'.result = "Ok(false)")
          => /\ BitSet(bitfields', last'.epoch, last'.validator_index)
             /\ \A i \in 1..Len(bitfields') :
                    \A v \in 0..(Len(bitfields'[i].bitfield) - 1) :
                        bitfields'[i].bitfield[v + 1]
                        => \/ <<bitfields'[i].epoch, v>> =
                                  <<last'.epoch, last'.validator_index>>
                           \/ BitSet(bitfields, bitfields'[i].epoch, v)
             /\ BitfieldLen(bitfields', last'.epoch) =
                    Max(BitfieldLen(bitfields, last'.epoch),
                        last'.validator_index + 1)]_vars

\* C2 witness: has_attested of the never-observed watched pair has just
\* returned Ok(false) while a higher index of the same epoch is observed, the
\* bitfield having grown past the watched position.
C2_Witness ==
    /\ last.op = "has_attested"
    /\ <<last.epoch, last.validator_index>> = watch
    /\ last.result = "Ok(false)"
    /\ ~watched
    /\ BitfieldLen(bitfields, watch[1]) > watch[2]
    /\ \E v \in ValidatorIndices : v > watch[2] /\ BitSet(bitfields, watch[1], v)
    /\ Len(bitfields) = 2

\* C3 (SpecContiguous): once the in-order loop has observed at epochs 0..N, the
\* retained epochs are exactly max(0, N - 1)..N.
C3_SlidingWindow ==
    seq_observed =>
        RetainedEpochs(bitfields) = saturating_sub(seq_epoch, 1)..seq_epoch

\* C3 witness: the loop has observed at epochs 0, 1 and 2, so epoch 0 has left
\* the window.
C3_Witness ==
    /\ seq_observed
    /\ seq_epoch = 2
    /\ last.op = "observe"
    /\ last.result = "Ok(true)"

\* C4 (Spec): at most max_capacity = 2 bitfields are retained.
C4_RetainedCount == Len(bitfields) <= max_capacity

\* C4 witness: a call for a third epoch has just been served by a full cache:
\* its bitfield took the place of the smallest epoch's (the first slot), next
\* to a bitfield more than one epoch above it, which a push never leaves.
C4_Witness ==
    /\ Len(bitfields) = max_capacity
    /\ IsQuery(last)
    /\ IsOk(last.result)
    /\ bitfields[1].epoch = last.epoch
    /\ bitfields[2].epoch > last.epoch + 1

\* C5 (as claimed; Spec): no call lowers lowest_permissible_epoch.
C5_FloorMonotone ==
    [][lowest_permissible_epoch' >= lowest_permissible_epoch]_vars

\* C6 (as claimed; SpecStale): once lowest_permissible_epoch has been above an
\* epoch, every observe or has_attested for that epoch returns EpochTooLow.
C6_StaleRejection ==
    [][(IsQuery(last') /\ last'.epoch < max_lpe)
       => last'.result = "EpochTooLow"]_vars

\* C7 (Spec): every retained bitfield's epoch is at least
\* lowest_permissible_epoch.
C7_RetainedAboveFloor ==
    \A i \in 1..Len(bitfields) : bitfields[i].epoch >= lowest_permissible_epoch

\* C7 witness: a prune has just raised the floor above 0 and bitfields are
\* still retained.
C7_Witness ==
    /\ last.op = "prune"
    /\ lowest_permissible_epoch > 0
    /\ Len(bitfields) = 2

\* C8 (as claimed; Spec): has_attested changes neither
\* lowest_permissible_epoch, nor the retained epochs, nor any observed bit.
C8_HasAttestedPure ==
    [][last'.op = "has_attested" => CacheUnchanged]_vars

\* C9 (as claimed; Spec): an observe that returns Ok(true) or an error changes
\* neither lowest_permissible_epoch, nor the retained epochs, nor any observed
\* bit.
C9_ObserveMutatesOnFalseOnly ==
    [][(last'.op = "observe" /\ last'.result # "Ok(false)")
       => CacheUnchanged]_vars

\* C10 (Spec): observe and has_attested return EpochTooLow exactly when the
\* epoch is below lowest_permissible_epoch as the call is made; otherwise
\* ValidatorIndexTooHigh exactly when the index is above the registry limit;
\* otherwise Ok.
C10_FailureConditions ==
    [][IsQuery(last')
       => IF last'.epoch < lowest_permissible_epoch
          THEN last'.result = "EpochTooLow"
          ELSE IF last'.validator_index > ValidatorRegistryLimit
          THEN last'.result = "ValidatorIndexTooHigh"
          ELSE IsOk(last'.result)]_vars

\* C10 witness: with bitfields retained, a call has just been rejected with
\* EpochTooLow.
C10_Witness ==
    /\ IsQuery(last)
    /\ last.result = "EpochTooLow"
    /\ Len(bitfields) = 2

Top2(S) == {e \in S : Cardinality({f \in S : f > e}) < 2}

\* C12, as stated: when epochs are observed in increasing order with gaps,
\* the retained epochs after each observe are the two highest epochs observed
\* so far (the single one when only one has been observed).
C12_TopTwoSeen ==
    seq_observed => RetainedEpochs(bitfields) = Top2(seq_seen)

\* C12, amended: the retained epochs after each observe are those of the two
\* highest epochs observed so far that are not more than one epoch below the
\* epoch just observed.
C12_TopTwoWithinWindow ==
    seq_observed =>
        RetainedEpochs(bitfields) = {e \in Top2(seq_seen) : e + 1 >= seq_epoch}

\* An epoch was skipped just before the epoch observed last, after another
\* had been observed.
C12_Witness ==
    /\ seq_observed
    /\ seq_epoch \in seq_seen
    /\ seq_epoch >= 2
    /\ (seq_epoch - 1) \notin seq_seen
    /\ Cardinality(seq_seen) >= 2

\* C13: when epochs are observed in increasing order with gaps, starting with
\* an empty cache, the retained epochs after each observe are exactly the
\* epochs observed so far that lie between lowest_permissible_epoch and the
\* epoch just observed, both included.
C13_RetainedAreSeenInRange ==
    seq_observed =>
        RetainedEpochs(bitfields) =
            {e \in seq_seen : lowest_permissible_epoch <= e /\ e <= seq_epoch}

\* A skipped epoch lies between lowest_permissible_epoch and the epoch just
\* observed.
C13_Witness ==
    /\ seq_observed
    /\ \E e \in lowest_permissible_epoch..seq_epoch : e \notin seq_seen

\* The place of x in a sequence without repetitions (1 is the head), 0 when
\* x is not in it.
Rank(seq, x) ==
    IF x \in Range(seq) THEN CHOOSE i \in 1..Len(seq) : seq[i] = x ELSE 0

\* The PubsubMessage events pushed so far for a message id.
PushedFor(id) ==
    SelectSeq(enqueued, LAMBDA e : e.type = "PubsubMessage" /\ e.id = id)

\* The step is the delivery of a gossip message whose id has been delivered
\* before.
RepeatDelivery ==
    /\ called'.op = "GossipsubEvent::Message"
    /\ called'.arg.id \in Range(delivered)

\* C14, as stated: whatever gossip messages are delivered, and however many
\* other ids are delivered between two deliveries of an id, at most one
\* PubsubMessage is pushed for an id.
C14_AtMostOnePerId ==
    \A id \in MessageIds : Len(PushedFor(id)) <= 1

\* C14, amended: a delivery of a message id that has been delivered before
\* pushes no event when fewer than LruCapacity other ids were delivered since
\* the id was last delivered.
C14_RepeatWithinCapacityNeverPushes ==
    [][RepeatDelivery /\ Rank(delivered, called'.arg.id) <= LruCapacity
          => events' = events]_vars

\* A message that decodes has just been delivered again, after another id,
\* and the one PubsubMessage pushed for its id is that of its first delivery.
C14_Witness ==
    /\ called.op = "GossipsubEvent::Message"
    /\ ~called.arg.first_sighting
    /\ called.arg.decodes
    /\ Len(delivered) >= 2
    /\ Len(PushedFor(called.arg.id)) = 1

\* The (kind, encoding) pairs of a set of topics.
KindsAndEncodings(topics) == {<<t.kind, t.encoding>> : t \in topics}

\* C15: update_fork_version(new id), after any subscribes and unsubscribes,
\* leaves the set of subscribed (kind, encoding) pairs as it was, every
\* subscribed topic with the fork digest of the new id, and as many
\* subscriptions in the gossip engine and in the shared set as before.
C15_ForkResubscription ==
    [][called'.op = "update_fork_version" =>
          /\ KindsAndEncodings(gossipsub_subscriptions')
                 = KindsAndEncodings(gossipsub_subscriptions)
          /\ \A t \in gossipsub_subscriptions' :
                 t.fork_digest = called'.arg.fork_digest
          /\ \A t \in gossipsub' : t[2] = called'.arg.fork_digest
          /\ Cardinality(gossipsub') = Cardinality(gossipsub)
          /\ Cardinality(gossipsub_subscriptions')
                 = Cardinality(gossipsub_subscriptions)]_vars

\* The fork version has been updated to digest 1 with two topics subscribed.
C15_Witness ==
    /\ called.op = "update_fork_version"
    /\ called.arg.fork_digest = 1
    /\ enr_fork_id = 1
    /\ Cardinality(gossipsub) >= 2
    /\ Cardinality(gossipsub_subscriptions) >= 2

\* The engine's topic of a kind, with the default encoding and the fork
\* digest the Behaviour has.
CurrentTopic(kind) ==
    GossipTopic_into(GossipTopic_new(kind, GossipEncoding_default, enr_fork_id))

SubscriptionsUnchanged ==
    /\ gossipsub' = gossipsub
    /\ gossipsub_subscriptions' = gossipsub_subscriptions

\* C19: subscribe_kind and subscribe_to_subnet return true exactly when the
\* gossip engine was not subscribed to the topic of the kind (default
\* encoding, current fork digest), unsubscribe_kind and
\* unsubscribe_from_subnet exactly when it was; a call that returns false
\* leaves the engine's topics and the shared set of subscriptions as they
\* were.
C19_ReturnsWhetherChanged ==
    [][/\ called'.op \in {"subscribe_kind", "subscribe_to_subnet"} =>
              /\ called'.ret
                     = Bool(CurrentTopic(called'.arg.gossip_kind) \notin gossipsub)
              /\ called'.ret = "false" => SubscriptionsUnchanged
       /\ called'.op \in {"unsubscribe_kind", "unsubscribe_from_subnet"} =>
              /\ called'.ret
                     = Bool(CurrentTopic(called'.arg.gossip_kind) \in gossipsub)
              /\ called'.ret = "false" => SubscriptionsUnchanged]_vars

\* subscribe_to_subnet has been called for a subnet already subscribed to,
\* and has returned false.
C19_Witness ==
    /\ called.op = "subscribe_to_subnet"
    /\ called.ret = "false"
    /\ CurrentTopic(called.arg.gossip_kind) \in gossipsub

\* C20: update_enr_subnet adds exactly 1 to meta_data.seq_number, whether or
\* not the ENR could be updated, and no other operation changes it; so it
\* never decreases.
C20_SeqNumberBumpedByOne ==
    [][/\ called'.op = "update_enr_subnet" =>
              meta_data'.seq_number = meta_data.seq_number + 1
       /\ called'.op # "update_enr_subnet" =>
              meta_data'.seq_number = meta_data.seq_number]_vars

\* update_enr_subnet has been called, the ENR could not be updated, and
\* seq_number is above its initial value.
C20_Witness ==
    /\ called.op = "update_enr_subnet"
    /\ ~called.arg.ok
    /\ meta_data.seq_number >= 2

\* The step is the handling of an RPC message of one of these kinds.
RpcStep(kinds) ==
    /\ called'.op = "RPCMessage"
    /\ called'.arg.kind \in kinds

\* The BehaviourEvent::RPC of the RPC message the step handles.
RpcEventOfStep ==
    BehaviourEvent("RPC", called'.arg.peer_id, called'.arg.id, called'.arg.kind)

\* C16: whatever RPC messages come in, a Ping request is never pushed as a
\* BehaviourEvent::RPC; a Status request and a successful Status response are
\* each pushed as exactly one BehaviourEvent::RPC, and the peer manager is
\* told of the status.
C16_InlineInterception ==
    [][/\ RpcStep({"Request(Ping)"}) => events' = events /\ enqueued' = enqueued
       /\ \A i \in 1..Len(enqueued') : enqueued'[i].detail # "Request(Ping)"
       /\ RpcStep({"Request(Status)", "Response(Success(Status))"}) =>
              /\ events' = Append(events, RpcEventOfStep)
              /\ enqueued' = Append(enqueued, RpcEventOfStep)
              /\ pm_calls' = <<<<"peer_statusd", called'.arg.peer_id>>>>]_vars

\* A successful Status response has been handled: it is the last event
\* pushed, and peer_statusd was called for its peer.
C16_Witness ==
    /\ called.op = "RPCMessage"
    /\ called.arg.kind = "Response(Success(Status))"
    /\ events # <<>>
    /\ events[Len(events)] =
           BehaviourEvent("RPC", called.arg.peer_id, called.arg.id, called.arg.kind)
    /\ pm_calls = <<<<"peer_statusd", called.arg.peer_id>>>>

\* C17: a poll returns at most one event, and the events pushed to `events`
\* are returned by the polls in the order they were pushed, none lost and
\* none twice.
C17_OneEventFifo ==
    [][/\ returned' \o events' = enqueued'
       /\ called'.op = "poll" =>
              \/ /\ called'.ret = "Ready"
                 /\ returned' = Append(returned, called'.event)
                 /\ called'.event = enqueued[Len(returned) + 1]
              \/ /\ returned' = returned
                 /\ events' = events
                 /\ called'.event.type \in {"StatusPeer", "Pending"}]_vars

\* Two different events have been pushed, and two polls have returned them
\* in that order.
C17_Witness ==
    /\ called.op = "poll"
    /\ Len(returned) = 2
    /\ returned[1] # returned[2]
    /\ returned = enqueued
    /\ called.event = returned[2]

\* The place of the first Status event in the peer manager's stream, 0 when
\* there is none.
FirstStatus(pm) ==
    IF \E i \in 1..Len(pm) : pm[i].kind = "Status"
    THEN CHOOSE i \in 1..Len(pm) :
             /\ pm[i].kind = "Status"
             /\ \A j \in 1..(i - 1) : pm[j].kind # "Status"
    ELSE 0

\* The request that acts on a Ping or MetaData event of the peer manager.
RequestFor(event, seq_number) ==
    IF event.kind = "Ping"
    THEN RPCEvent(event.peer_id, 0, "Request(Ping)", seq_number, {})
    ELSE RPCEvent(event.peer_id, 0, "Request(MetaData)", 0, {})

\* C18, as stated: when poll returns, every event the peer manager had ready
\* when it was called has been consumed.
C18_DrainedToExhaustion ==
    [][called'.op = "poll" => pm_events' = <<>>]_vars

\* C18, amended: poll consumes the events the peer manager has ready, in
\* order, up to and including the first Status event, and sends the request
\* of every Ping and MetaData event it consumes; on a Status event it returns
\* StatusPeer at once and the events behind it stay ready for a later poll;
\* with no Status event ready, all are consumed.
C18_DrainedUpToStatus ==
    [][called'.op = "poll" =>
          LET k == FirstStatus(pm_events)
              n == IF k = 0 THEN Len(pm_events) ELSE k - 1
          IN  /\ pm_events' = SubSeq(pm_events, IF k = 0 THEN n + 1 ELSE k + 1,
                                     Len(pm_events))
              /\ rpc_sent' = [i \in 1..n |->
                                 RequestFor(pm_events[i], meta_data.seq_number)]
              /\ k # 0 => called'.event =
                     BehaviourEvent("StatusPeer", pm_events[k].peer_id, 0, "")
              /\ k = 0 => called'.event.type # "StatusPeer"]_vars

\* poll has returned StatusPeer, and a Ping event of the peer manager that
\* was behind the Status event is still ready.
C18_Witness ==
    /\ called.op = "poll"
    /\ called.event.type = "StatusPeer"
    /\ pm_events # <<>>
    /\ pm_events[1].kind = "Ping"

\* C21: every Identify 'received' event makes one identify call on the peer
\* manager, for the peer of the event; the info passed has at most 10
\* addresses: the advertised list itself when it has 10 or fewer, its first
\* 10 entries in order when it has more; the rest of the info is as received.
C21_AtMostTenAddresses ==
    [][(called'.op = "IdentifyEvent" /\ called'.arg.kind = "Received") =>
          /\ Len(pm_calls') = 1
          /\ pm_calls'[1][1] = "identify"
          /\ pm_calls'[1][2] = called'.arg.peer_id
          /\ LET advertised == identify_info.listen_addrs
                 forwarded == pm_calls'[1][3].listen_addrs
             IN  /\ Len(forwarded) <= 10
                 /\ Len(advertised) <= 10 => forwarded = advertised
                 /\ Len(advertised) > 10 =>
                        /\ Len(forwarded) = 10
                        /\ \A i \in 1..10 : forwarded[i] = advertised[i]
                 /\ pm_calls'[1][3].agent_version = identify_info.agent_version]_vars

\* A peer advertised 11 addresses, not all the same, and the info of 10 was
\* passed to the peer manager.
C21_Witness ==
    /\ called.op = "IdentifyEvent"
    /\ called.arg.kind = "Received"
    /\ Len(identify_info.listen_addrs) = 11
    /\ identify_info.listen_addrs[1] # identify_info.listen_addrs[11]
    /\ Len(pm_calls) = 1
    /\ Len(pm_calls[1][3].listen_addrs) = 10

\* C22: a validator whose deposit transaction the Eth1 node was sent has a
\* tx-hash file in its directory, and no validator's deposit is sent twice.
C22_TxHashSavedAfterSubmission ==
    \A v \in Range(AllValidators) :
        /\ eth1_txs[v] > 0 => validator_dirs[v].eth1_deposit_tx_hash
        /\ eth1_txs[v] <= 1

\* C23: whenever a thread's observe(E, V) sets or tests its bit, the bitfield
\* at the index it selected is the bitfield of epoch E.
C23_ObserveHitsItsEpoch ==
    [][\A t \in Threads :
          (/\ threads[t].op = "observe"
           /\ threads[t].pc = "access"
           /\ threads'[t].pc = "idle"
           /\ threads[t].index < Len(bitfields))
          => bitfields[threads[t].index + 1].epoch = threads[t].epoch]_vars

\* C24: with threads whose calls interleave, between any two critical
\* sections (no thread holds a lock then) no retained bitfield has an epoch
\* below lowest_permissible_epoch, whatever the threads are in the middle of.
C24_NeverBelowFloor ==
    {i \in 1..Len(bitfields) : bitfields[i].epoch < lowest_permissible_epoch} = {}

\* C25: a thread that is in has_attested never holds the write guard of
\* bitfields or of lowest_permissible_epoch.
C25_HasAttestedReadLocksOnly ==
    \A t \in Threads :
        threads[t].op = "has_attested" =>
            /\ locks.bitfields.writer # t
            /\ locks.lowest_permissible_epoch.writer # t

\* Thread t waits for a lock.
Waiting(t) == \E section \in Sections : threads[t].pc = LockPc[section]

\* C26: a thread that waits for a lock holds no guard, of that lock or of
\* the other, and every call that a thread has begun returns in the end.
C26_DeadlockFreedom ==
    /\ [](\A t \in Threads :
              Waiting(t) => /\ ~RwLock_held(locks.bitfields, t)
                            /\ ~RwLock_held(locks.lowest_permissible_epoch, t))
    /\ \A t \in Threads : (threads[t].pc # "idle") ~> (threads[t].pc = "idle")

\* A thread waits for the write lock on bitfields while another thread
\* holds it.
C26_Witness ==
    \E t, u \in Threads :
        /\ t # u
        /\ threads[t].pc = LockPc.select
        /\ locks.bitfields.writer = u
        /\ threads[u].pc = "access"

\* The bitfields of a Vec that are not below a floor, by their indices.
NotBelow(bfs, floor) == {i \in 1..Len(bfs) : bfs[i].epoch >= floor}

\* C27: a call of prune(current_epoch) sets lowest_permissible_epoch to
\* current_epoch - 1, or 0 for current_epoch 0; the bitfields retained after
\* it are exactly those that were retained with an epoch not below that
\* value, each with the bits it had, in the order they were in.
C27_PruneEffect ==
    [][(last'.op = "prune" /\ tick' # tick) =>
          LET floor == IF last'.epoch = 0 THEN 0 ELSE last'.epoch - 1
          IN  /\ lowest_permissible_epoch' = floor
              /\ Len(bitfields') = Cardinality(NotBelow(bitfields, floor))
              /\ \A i \in NotBelow(bitfields, floor) :
                     bitfields'[Cardinality({j \in NotBelow(bitfields, floor) : j <= i})]
                         = bitfields[i]]_vars

\* prune(2) has returned, and the one bitfield retained is that of epoch 1,
\* with a bit set.
C27_Witness ==
    /\ last.op = "prune"
    /\ last.epoch = 2
    /\ lowest_permissible_epoch = 1
    /\ Len(bitfields) = 1
    /\ bitfields[1].epoch = 1
    /\ \E v \in 1..Len(bitfields[1].bitfield) : bitfields[1].bitfield[v]

\* The step is a call of observe or has_attested for an epoch that is not
\* below the floor and has no bitfield, made while 2 bitfields are retained.
SelectionOnFullWindow ==
    /\ tick' # tick
    /\ last'.op \in {"observe", "has_attested"}
    /\ last'.epoch >= lowest_permissible_epoch
    /\ last'.epoch \notin RetainedEpochs(bitfields)
    /\ Len(bitfields) = 2

\* b is a bitfield of the epoch of the call, new in this call: no bit of it
\* is set but the one that the call, if an observe, has set.
Fresh(b) ==
    /\ b.epoch = last'.epoch
    /\ \A v \in 1..Len(b.bitfield) :
           b.bitfield[v] => (last'.op = "observe" /\ v = last'.validator_index + 1)

\* Of the two bitfields retained before the step, the one with the smallest
\* epoch has made place for a fresh one and the other is as it was.
SmallestReplaced ==
    LET smallest == CHOOSE i \in 1..2 :
                        \A j \in 1..2 : bitfields[i].epoch <= bitfields[j].epoch
    IN  /\ Len(bitfields') = 2
        /\ \E j \in 1..2 : /\ Fresh(bitfields'[j])
                            /\ bitfields'[3 - j] = bitfields[3 - smallest]

\* C28 (as claimed): such a call replaces exactly the bitfield with the
\* smallest epoch by an empty bitfield for its epoch, and the other bitfield
\* keeps its epoch and bits.
C28_SmallestEpochReplaced ==
    [][SelectionOnFullWindow => SmallestReplaced]_vars

\* C28 (amended): the same when both bitfields outlive the pruning that the
\* call does first for an epoch 2 or more above the floor; a bitfield whose
\* epoch is below epoch - 1 is discarded by that pruning, both when both
\* are, and the fresh bitfield is pushed after what is left.
C28_ReplacedAfterPruning ==
    [][SelectionOnFullWindow =>
          LET floor == IF lowest_permissible_epoch + max_capacity < last'.epoch + 1
                       THEN last'.epoch - 1
                       ELSE lowest_permissible_epoch
              kept == NotBelow(bitfields, floor)
          IN  IF Cardinality(kept) = 2
              THEN SmallestReplaced
              ELSE /\ Len(bitfields') = Cardinality(kept) + 1
                   /\ Fresh(bitfields'[Len(bitfields')])
                   /\ \A i \in kept : bitfields'[1] = bitfields[i]]_vars

\* observe(1, ..) has replaced the smaller of two epochs, in its slot, next
\* to the bitfield of epoch 3, which has a bit set.
C28_Witness ==
    /\ last.op = "observe"
    /\ last.epoch = 1
    /\ last.result = "Ok(false)"
    /\ Len(bitfields) = 2
    /\ bitfields[1].epoch = 1
    /\ bitfields[2].epoch = 3
    /\ \E v \in 1..Len(bitfields[2].bitfield) : bitfields[2].bitfield[v]

\* C29: with observe and has_attested calls alone, every retained epoch is
\* lowest_permissible_epoch or the epoch after it, and a bitfield that a
\* call discards has an epoch below the floor that the call leaves.
C29_WindowIsFloorAndNext ==
    /\ [](\A e \in RetainedEpochs(bitfields) :
              /\ lowest_permissible_epoch <= e
              /\ e <= lowest_permissible_epoch + 1)
    /\ [][\A e \in RetainedEpochs(bitfields) \ RetainedEpochs(bitfields') :
              e < lowest_permissible_epoch']_vars

\* The floor has moved to 2, the bitfields of epochs 2 and 3 are retained,
\* both with a bit set, and a call for the discarded epoch 1 has been refused.
C29_Witness ==
    /\ lowest_permissible_epoch = 2
    /\ RetainedEpochs(bitfields) = {2, 3}
    /\ \A i \in 1..Len(bitfields) :
           \E v \in 1..Len(bitfields[i].bitfield) : bitfields[i].bitfield[v]
    /\ last.epoch = 1
    /\ last.result = "EpochTooLow"

\* C30: a Ping request of peer P with id R makes one ping_request call on the
\* peer manager and one send_rpc, of a Pong to P with id R whose data is
\* meta_data.seq_number, which is 1 plus the number of update_enr_subnet
\* calls so far; a MetaData request makes one send_rpc, of a MetaData
\* response to P with id R that holds meta_data; neither pushes an event.
C30_RepliesCarryCurrentMetaData ==
    [][called'.op = "RPCMessage" =>
          LET peer_id == called'.arg.peer_id
              id == called'.arg.id
          IN  /\ called'.arg.kind = "Request(Ping)" =>
                     /\ pm_calls' = <<<<"ping_request", peer_id>>>>
                     /\ Len(rpc_sent') = 1
                     /\ rpc_sent'[1].peer_id = peer_id
                     /\ rpc_sent'[1].id = id
                     /\ rpc_sent'[1].kind = "Response(Success(Pong))"
                     /\ rpc_sent'[1].seq_number = meta_data.seq_number
                     /\ rpc_sent'[1].seq_number = 1 + enr_updates
                     /\ UNCHANGED <<events, enqueued>>
              /\ called'.arg.kind = "Request(MetaData)" =>
                     /\ Len(rpc_sent') = 1
                     /\ rpc_sent'[1].peer_id = peer_id
                     /\ rpc_sent'[1].id = id
                     /\ rpc_sent'[1].kind = "Response(Success(MetaData))"
                     /\ rpc_sent'[1].seq_number = meta_data.seq_number
                     /\ rpc_sent'[1].attnets = meta_data.attnets
                     /\ UNCHANGED <<events, enqueued>>]_vars

\* After two update_enr_subnet calls, the second of which set a subnet, a
\* Ping request has been answered with a Pong of seq_number 3.
C30_Witness ==
    /\ called.op = "RPCMessage"
    /\ called.arg.kind = "Request(Ping)"
    /\ enr_updates = 2
    /\ meta_data.attnets # {}
    /\ Len(rpc_sent) = 1
    /\ rpc_sent[1].seq_number = 3

\* C31: a successful Pong response and a successful MetaData response each
\* make one call on the peer manager, for the peer of the message, and push
\* no event; an RPC error makes one handle_rpc_error call and is pushed; any
\* other request or response that is not a Ping, MetaData or Status message
\* pushes exactly one BehaviourEvent::RPC with the peer, id and kind of the
\* message; the events pushed are appended, so `enqueued` keeps the order in
\* which the RPC messages came in.
C31_RemainingKinds ==
    [][called'.op = "RPCMessage" =>
          LET peer_id == called'.arg.peer_id
          IN  /\ RpcStep({"Response(Success(Pong))"}) =>
                     /\ pm_calls' = <<<<"pong_response", peer_id>>>>
                     /\ UNCHANGED <<events, enqueued>>
              /\ RpcStep({"Response(Success(MetaData))"}) =>
                     /\ pm_calls' = <<<<"meta_data_response", peer_id>>>>
                     /\ UNCHANGED <<events, enqueued>>
              /\ RpcStep({"Error"}) =>
                     /\ pm_calls' = <<<<"handle_rpc_error", peer_id>>>>
                     /\ events' = Append(events, RpcEventOfStep)
                     /\ enqueued' = Append(enqueued, RpcEventOfStep)
              /\ RpcStep({"Request(Goodbye)", "Response(InvalidRequest)"}) =>
                     /\ events' = Append(events, RpcEventOfStep)
                     /\ enqueued' = Append(enqueued, RpcEventOfStep)
              /\ \/ UNCHANGED <<events, enqueued>>
                 \/ /\ events' = Append(events, RpcEventOfStep)
                    /\ enqueued' = Append(enqueued, RpcEventOfStep)]_vars

\* An RPC error has been handled after a Goodbye request of another peer:
\* both are in `events` in that order, and handle_rpc_error was called.
C31_Witness ==
    /\ called.op = "RPCMessage"
    /\ called.arg.kind = "Error"
    /\ pm_calls = <<<<"handle_rpc_error", called.arg.peer_id>>>>
    /\ Len(events) = 2
    /\ events[1].detail = "Request(Goodbye)"
    /\ events[1].peer_id # called.arg.peer_id
    /\ events[2] =
           BehaviourEvent("RPC", called.arg.peer_id, called.arg.id, "Error")

\* The step is the delivery of a gossip message whose id is not in the dedup
\* cache, while the cache is full.
NewIdAtFullCapacity ==
    /\ called'.op = "GossipsubEvent::Message"
    /\ called'.arg.id \notin Range(seen_gossip_messages)
    /\ Len(seen_gossip_messages) = LruCapacity

\* The ids that the step drops from the dedup cache.
Evicted == Range(seen_gossip_messages) \ Range(seen_gossip_messages')

\* C32, as stated: the dedup cache never holds more than LruCapacity ids, and
\* a new id that arrives at full capacity evicts the id that was inserted
\* earliest of those in the cache.
C32_EarliestInsertedEvicted ==
    [][/\ Len(seen_gossip_messages') <= LruCapacity
       /\ NewIdAtFullCapacity => Evicted = {inserted[Len(inserted)]}]_vars

\* C32, amended: the dedup cache never holds more than LruCapacity ids; it
\* holds the ids delivered last, in the order of their last delivery, so a
\* repeat sighting makes an id the last to be evicted, and a new id that
\* arrives at full capacity evicts the id whose last delivery is the oldest.
C32_LeastRecentlySeenEvicted ==
    /\ [](/\ Len(seen_gossip_messages) <= LruCapacity
          /\ seen_gossip_messages =
                 SubSeq(delivered, 1, Len(seen_gossip_messages))
          /\ Len(delivered) > Len(seen_gossip_messages) =>
                 Len(seen_gossip_messages) = LruCapacity)
    /\ [][NewIdAtFullCapacity =>
              /\ Evicted = {delivered[LruCapacity]}
              /\ seen_gossip_messages'[1] = called'.arg.id]_vars

\* A new id has arrived at full capacity after a repeat sighting of the id
\* inserted first: that id is still in the cache, and the id inserted after
\* it is gone.
C32_Witness ==
    /\ called.op = "GossipsubEvent::Message"
    /\ called.arg.first_sighting
    /\ Len(seen_gossip_messages) = LruCapacity
    /\ Len(delivered) > LruCapacity
    /\ delivered[Len(delivered)] \notin Range(seen_gossip_messages)
    /\ Range(inserted) = Range(seen_gossip_messages)
    /\ inserted[Len(inserted)] = seen_gossip_messages[2]
    /\ \E i \in 1..Len(enqueued) :
           /\ enqueued[i].type = "PubsubMessage"
           /\ enqueued[i].id = inserted[Len(inserted)]

\* C33, as stated: with poll called again and again, every event pushed to
\* `events` is returned by a poll in the end, whatever events the peer
\* manager's stream has ready, Status events included.
C33_EveryQueuedEventReturned ==
    \A n \in 1..MaxEvents : Len(enqueued) >= n ~> Len(returned) >= n

\* C33, amended: a poll that finds no Status event ready in the peer
\* manager's stream returns the head of `events` when there is one, however
\* many Ping and MetaData events it consumes; a poll that finds one consumes
\* the events up to it and leaves `events` as it is. So with poll called
\* again and again, every event pushed is returned in the end provided that,
\* again and again, a poll returns something else than StatusPeer.
C33_ReturnedUnlessStatusReady ==
    /\ [][called'.op = "poll" =>
              IF FirstStatus(pm_events) = 0
              THEN /\ events # <<>> =>
                          /\ called'.event = Head(events)
                          /\ events' = Tail(events)
                          /\ returned' = Append(returned, Head(events))
                   /\ pm_events' = <<>>
              ELSE /\ UNCHANGED <<events, returned>>
                   /\ Len(pm_events') < Len(pm_events)]_vars
    /\ \A n \in 1..MaxEvents :
           []<>(called.op = "poll" /\ called.event.type # "StatusPeer")
               => (Len(enqueued) >= n ~> Len(returned) >= n)

\* A poll that consumed a Ping event of the peer manager has returned the
\* second of two events pushed, after a poll that returned the first.
C33_Witness ==
    /\ called.op = "poll"
    /\ called.ret = "Ready"
    /\ Len(rpc_sent) >= 1
    /\ rpc_sent[1].kind = "Request(Ping)"
    /\ Len(returned) = 2
    /\ called.event = enqueued[2]
    /\ events = <<>>

\* C34: after any calls of subscribe_kind, unsubscribe_kind,
\* subscribe_to_subnet, unsubscribe_from_subnet and update_fork_version, the
\* topics the gossip engine is subscribed to are exactly those of
\* network_globals.gossipsub_subscriptions, and each of them has the fork
\* digest of enr_fork_id.
C34_SharedSetMatchesEngine ==
    /\ gossipsub = {GossipTopic_into(topic) : topic \in gossipsub_subscriptions}
    /\ Cardinality(gossipsub) = Cardinality(gossipsub_subscriptions)
    /\ \A topic \in gossipsub_subscriptions : topic.fork_digest = enr_fork_id
    /\ \A t \in gossipsub : t[2] = enr_fork_id

\* After subscriptions to a kind and to a subnet and an update of the fork
\* version to digest 1, the subnet has been unsubscribed from: one topic is
\* left, in the engine and in the shared set.
C34_Witness ==
    /\ called.op = "unsubscribe_from_subnet"
    /\ called.ret = "true"
    /\ enr_fork_id = 1
    /\ local_enr.eth2 = 1
    /\ Cardinality(gossipsub_subscriptions) = 1
    /\ \E topic \in gossipsub_subscriptions :
           /\ topic.kind = GossipKind_BeaconBlock
           /\ gossipsub = {GossipTopic_into(topic)}

====
